---------------------------- MODULE Spec2Model ----------------------------
(***************************************************************************)
(* A model of the lidar map editor's geometric pipeline:                   *)
(*   Tiler            src/backend/kmeans_pcd.py                            *)
(*   GroundEstimator  src/backend/ground_detection.py                      *)
(*   DetectionMapper  src/backend/apply_inference.py                       *)
(*   BoxEditor        src/backend/process_pcd.py                           *)
(*   HeightProjector  src/backend/render_heightmaps.py                     *)
(* Every stage is a separate script run to completion, so every stage has  *)
(* its own specification (SpecTiler, SpecGround, SpecMapper, SpecBox,      *)
(* SpecProjector) over its own variables; the variables of the other       *)
(* stages stay idle.                                                       *)
(* SpecMerge runs merge_centers_until_stable alone, on arbitrary centres.  *)
(*                                                                         *)
(* Numbers.  The code computes in float64.  The model computes exactly, in *)
(* integers: cluster centres are rationals <<nx, ny, d>> in lowest terms,  *)
(* lengths are integers in centimetres, plane normals are integer vectors  *)
(* at scale 1000 (fixed point).  Sequences are 1-based: the code's index i *)
(* is the model's i+1, and "lowest index" means the same in both.          *)
(***************************************************************************)
EXTENDS Integers, Sequences, FiniteSets, Bags, TLC

\* ------------------------------------------------------------ the state
\* Tiler (kmeans_pcd.py).  A cloud is a set of points <<x, y>>.
VARIABLES
    tpc,         \* position in main(): start, sampled, merging, merged,
                 \* assigned, renumbered, exported, done, failed
    xy_full,     \* the input cloud: a set of points <<x, y>>
    target_abs,  \* --target_points_per_cluster, clamped to >= 1
    keepInv,     \* 1/keep_ratio
    K,           \* number of k-means clusters
    kept,        \* the sub-sample (xy_kept), a subset of xy_full
    centers,     \* sequence of centres <<nx, ny, d>>
    counts,      \* est_abs_counts, then full_counts after the assignment
    labels_full, \* point -> index into centers
    tiles,       \* cluster_files: cid -> the points written to its PCD
    neighbors,   \* neighbors_info: cid -> sequence of neighbour ids
    changed,     \* merge_centers_until_stable's loop flag
    merged,      \* history: the last accepted merge, <<>> before the first
    nMerges,     \* history: number of accepted merges
    nPasses      \* history: number of passes of the merge's while loop

tvars == <<tpc, xy_full, target_abs, keepInv, K, kept, centers, counts,
           labels_full, tiles, neighbors, changed, merged, nMerges, nPasses>>

\* GroundEstimator (ground_detection.py).
VARIABLES
    gpc,        \* position in main(): fit, repair, report, split, done
    nb,         \* neighbors.json: per tile (file order) its neighbour ids
    pcd,        \* the tiles' clouds (cluster_XXXX.pcd), per tile
    split_dist, \* --split_dist (cm)
    save_split, \* --save_split
    gcur,       \* index of the tile the running loop is at
    planes,     \* planes: tile id -> Plane record, for the tiles that have one
    suspects,   \* suspects: the tile ids repaired, in order
    report,     \* report.json, <<>> until it is written
    splits,     \* tile id -> [ground, nonground] as split_and_save divided it
    fitted,     \* history: planes as they were when the fit loop ended
    fitSeen     \* history: the tiles whose fit step has finished

gvars == <<gpc, nb, pcd, split_dist, save_split, gcur, planes, suspects,
           report, splits, fitted, fitSeen>>

\* DetectionMapper (apply_inference.py), one tile of the batch.
VARIABLES
    mpc,           \* position in main(): parse, assign, write, clean, done,
                   \* skipped (empty cloud) or crashed (uncaught IndexError)
    mpts,          \* pts: the tile's non-ground points, in file order
    lines,         \* the non-blank lines of the tile's detection file
    bbox_defs,     \* bbox_defs: i, box, center, conf of every parsed line
    assignments,   \* assignments: per slot, the point indices stored in it
    midx,          \* index of the point the assignment loop is at
    mdef,          \* index in bbox_defs the output loop is at
    mmask,         \* mask_remove: the point indices written to an Object
    inference,     \* inference_<i>.pcd: detection index -> point indices
    clean,         \* chunk_clean.pcd: point indices, <<>> while unwritten
    cleanWritten,  \* chunk_clean.pcd exists
    inf_summaries, \* inf_summaries: id and points of every Object written
    chosenOf       \* history: point index -> i of the candidate chosen

mvars == <<mpc, mpts, lines, bbox_defs, assignments, midx, mdef, mmask,
           inference, clean, cleanWritten, inf_summaries, chosenOf>>

\* BoxEditor (process_pcd.py).
VARIABLES
    bpc,          \* position in main(): boxes, save, done
    points,       \* points: the input cloud, in file order (cm)
    bboxes,       \* the bounding_box list of the box file
    bi,           \* index of the box the loop is at
    mask_remove,  \* mask_remove: the input point indices to drop
    new_points,   \* new_points: one array of synthesized points per fill
    output,       \* the saved cloud, <<>> while unwritten
    nKept,        \* history: how many input points lead the saved cloud
    fillOf        \* history: per box handled, the points synthesized for it

bvars == <<bpc, points, bboxes, bi, mask_remove, new_points, output, nKept,
           fillOf>>

\* HeightProjector (render_heightmaps.py), one tile: from the split of the
\* tile by ground_detection.py to the tile's raster and metadata.
VARIABLES
    hpc,       \* position: split, listed, heights, clipped, done, skipped
    tile_pts,  \* the tile's cloud, in file order (cm)
    hplane,    \* the tile's Plane in the report: n (scale 1000) and D
    cap_mode,  \* --cap_mode: "clamp" or "drop"
    ng_file,   \* cluster_XXXX_nonground.pcd: [exists, pts]
    hxyh,      \* x, y, h of the points after the height cap
    raster     \* the tile's PNG and JSON: [exists, img, meta]

hvars == <<hpc, tile_pts, hplane, cap_mode, ng_file, hxyh, raster>>

\* The variables a script leaves alone.
offTiler == <<gvars, mvars, bvars, hvars>>
offGround == <<tvars, mvars, bvars, hvars>>
offMapper == <<tvars, gvars, bvars, hvars>>
offBox == <<tvars, gvars, mvars, hvars>>
offProjector == <<tvars, gvars, mvars, bvars>>

vars == <<tvars, gvars, mvars, bvars, hvars>>

\* ------------------------------------------------------------------ bounds
\* Largest input cloud of the Tiler (points).
MaxPts == 6
\* Largest --target_points_per_cluster of the Tiler.
MaxTarget == 4
\* keep_ratio is 1/keepInv, keepInv in 1..MaxKeepInv (1: keep_ratio >= 0.999).
MaxKeepInv == 2
\* merge_centers_until_stable taken alone: most clusters, largest count.
MaxK == 3
MaxCount == 2
\* Most tiles in neighbors.json for the GroundEstimator.
MaxTiles == 3
\* Most non-blank lines of a detection file, and most points of the tile.
MaxLines == 3
MaxMPts == 2
\* Most boxes of a BoxEditor box file, and most points of its input cloud.
MaxBoxes == 2
MaxBPts == 2
\* Most points of a tile handed to the HeightProjector.
MaxHPts == 3

\* ------------------------------------------------------------- arithmetic
Abs(x) == IF x < 0 THEN -x ELSE x

Max2(a, b) == IF a >= b THEN a ELSE b

Min2(a, b) == IF a <= b THEN a ELSE b

RECURSIVE GCD(_, _)
GCD(a, b) == IF b = 0 THEN Abs(a) ELSE GCD(b, a % b)

LCM(a, b) == (a * b) \div GCD(a, b)

RECURSIVE SumSeq(_)
SumSeq(s) == IF s = <<>> THEN 0 ELSE Head(s) + SumSeq(Tail(s))

RECURSIVE SumOver(_, _)
\* Sum of f[x] over the finite set S.
SumOver(S, f) ==
    IF S = {} THEN 0
    ELSE LET x == CHOOSE y \in S : TRUE IN f[x] + SumOver(S \ {x}, f)

\* A delete that deletes nothing.
DeleteNothing(s, i) == s

\* s without its i-th element (np.delete(s, i, axis=0)).
DeleteAt(s, i) == [k \in 1..(Len(s) - 1) |-> IF k < i THEN s[k] ELSE s[k + 1]]

\* A rational centre <<nx, ny, d>> (the point (nx/d, ny/d)) in lowest terms.
NormC(c) ==
    LET g == GCD(GCD(c[1], c[2]), c[3])
    IN  <<c[1] \div g, c[2] \div g, c[3] \div g>>

RECURSIVE LcmDen(_)
\* A common denominator of a sequence of centres.
LcmDen(cs) == IF cs = <<>> THEN 1 ELSE LCM(Head(cs)[3], LcmDen(Tail(cs)))

\* The state of a script that is not running.
GroundIdle ==
    /\ gpc = "idle"
    /\ nb = <<>>
    /\ pcd = <<>>
    /\ split_dist = 0
    /\ save_split = FALSE
    /\ gcur = 0
    /\ planes = <<>>
    /\ suspects = <<>>
    /\ report = <<>>
    /\ splits = <<>>
    /\ fitted = <<>>
    /\ fitSeen = {}

MapperIdle ==
    /\ mpc = "idle"
    /\ mpts = <<>>
    /\ lines = <<>>
    /\ bbox_defs = <<>>
    /\ assignments = <<>>
    /\ midx = 0
    /\ mdef = 0
    /\ mmask = {}
    /\ inference = <<>>
    /\ clean = <<>>
    /\ cleanWritten = FALSE
    /\ inf_summaries = <<>>
    /\ chosenOf = <<>>

BoxIdle ==
    /\ bpc = "idle"
    /\ points = <<>>
    /\ bboxes = <<>>
    /\ bi = 0
    /\ mask_remove = {}
    /\ new_points = <<>>
    /\ output = <<>>
    /\ nKept = 0
    /\ fillOf = <<>>

\* No file and no raster.
NoFile == [exists |-> FALSE, pts |-> <<>>]
NoRaster == [exists |-> FALSE, img |-> <<>>, meta |-> <<>>]

ProjectorIdle ==
    /\ hpc = "idle"
    /\ tile_pts = <<>>
    /\ hplane = <<>>
    /\ cap_mode = ""
    /\ ng_file = NoFile
    /\ hxyh = <<>>
    /\ raster = NoRaster

TilerIdle ==
    /\ tpc = "idle"
    /\ xy_full = {}
    /\ target_abs = 0
    /\ keepInv = 0
    /\ K = 0
    /\ kept = {}
    /\ centers = <<>>
    /\ counts = <<>>
    /\ labels_full = <<>>
    /\ tiles = <<>>
    /\ neighbors = <<>>
    /\ changed = FALSE
    /\ merged = <<>>
    /\ nMerges = 0
    /\ nPasses = 0

\* =========================================================================
\* Tiler: kmeans_pcd.py main()
\* =========================================================================

\* The input clouds: the first n points of CloudPts, n in 1..MaxPts.
CloudPts == <<<<0, 0>>, <<4, 0>>, <<0, 3>>, <<4, 4>>, <<1, 0>>, <<2, 2>>,
             <<3, 1>>, <<0, 4>>>>

Clouds == {{CloudPts[i] : i \in 1..n} : n \in 1..Min2(MaxPts, Len(CloudPts))}

\* K = max(1, int(round(n_full / target_abs))); Python rounds halves to even.
PyRound(n, t) ==
    LET q == n \div t
        r == n % t
    IN  IF 2 * r < t THEN q
        ELSE IF 2 * r > t THEN q + 1
        ELSE IF q % 2 = 0 THEN q ELSE q + 1

StartTiler ==
    /\ UNCHANGED offTiler
    /\ tpc = "start"
    /\ K' = Max2(1, PyRound(Cardinality(xy_full), target_abs))
    /\ tpc' = "counted"
    /\ UNCHANGED <<xy_full, target_abs, keepInv, kept, centers, counts,
                   labels_full, tiles, neighbors, changed, merged, nMerges, nPasses>>

\* downsample_idx: every point when keep_ratio >= 0.999, else each point is
\* kept with probability keep_ratio: any subset, the empty one included.
DownsampleOutcomes(pts, inv) == IF inv = 1 THEN {pts} ELSE SUBSET pts

Downsample ==
    /\ UNCHANGED offTiler
    /\ tpc = "counted"
    /\ \E s \in DownsampleOutcomes(xy_full, keepInv) : kept' = s
    /\ tpc' = "sampled"
    /\ UNCHANGED <<xy_full, target_abs, keepInv, K, centers, counts,
                   labels_full, tiles, neighbors, changed, merged, nMerges, nPasses>>

\* The mean of a non-empty set of points, as a rational centre.
MeanOf(S) ==
    NormC(<<SumOver(S, [p \in S |-> p[1]]), SumOver(S, [p \in S |-> p[2]]),
            Cardinality(S)>>)

\* KMeans(n_clusters=K).fit_predict accepts the sample only when it holds at
\* least K points (sklearn raises ValueError otherwise, also on an empty
\* sample).
KMeansAccepts(sample, k) == Cardinality(sample) >= k

\* The labelings k-means may return: every cluster non-empty, its centre the
\* mean of its points.
KMeansLabelings(sample, k) ==
    {l \in [sample -> 1..k] : \A c \in 1..k : \E p \in sample : l[p] = c}

KMeansFit ==
    /\ UNCHANGED offTiler
    /\ tpc = "sampled"
    /\ KMeansAccepts(kept, K)
    /\ \E l \in KMeansLabelings(kept, K) :
         /\ centers' = [c \in 1..K |-> MeanOf({p \in kept : l[p] = c})]
         \* kept_counts / max(keep_ratio, 1e-9)
         /\ counts' = [c \in 1..K |->
                          Cardinality({p \in kept : l[p] = c}) * keepInv]
    /\ changed' = TRUE
    /\ tpc' = "merging"
    /\ UNCHANGED <<xy_full, target_abs, keepInv, K, kept, labels_full, tiles,
                   neighbors, merged, nMerges, nPasses>>

KMeansRaises ==
    /\ UNCHANGED offTiler
    /\ tpc = "sampled"
    /\ ~KMeansAccepts(kept, K)
    /\ tpc' = "failed"
    /\ UNCHANGED <<xy_full, target_abs, keepInv, K, kept, centers, counts,
                   labels_full, tiles, neighbors, changed, merged, nMerges, nPasses>>

\* ---------------------------------------------- merge_centers_until_stable
\* A centre's coordinates over the common denominator L.
Scaled(c, L) == <<c[1] * (L \div c[3]), c[2] * (L \div c[3])>>

\* L*L times the squared distance of two centres (np.sum(dif*dif, axis=1)).
Dist2(c1, c2, L) ==
    LET a == Scaled(c1, L)
        b == Scaled(c2, L)
    IN  (a[1] - b[1]) * (a[1] - b[1]) + (a[2] - b[2]) * (a[2] - b[2])

\* d2[idx] = inf; j = np.argmin(d2): the first index of the least distance
\* among the other centres.
NearestOther(cs, idx) ==
    LET L == LcmDen(cs)
        others == (1..Len(cs)) \ {idx}
        best == {j \in others : \A k \in others :
                    Dist2(cs[j], cs[idx], L) <= Dist2(cs[k], cs[idx], L)}
    IN  CHOOSE j \in best : \A k \in best : j <= k

\* Lines 59-65: cluster idx is small and fits into its nearest neighbour.
Qualifies(cs, cnt, tgt, idx) ==
    /\ cnt[idx] < tgt
    /\ cnt[idx] + cnt[NearestOther(cs, idx)] <= tgt

\* Line 67: new_center = (centers[idx]*ci + counts[j]*counts[j]) / new_count.
\* The second term is the scalar cj*cj, added to both coordinates.
MergedCenter(Ci, ci, Cj, cj) ==
    NormC(<<Ci[1] * ci + cj * cj * Ci[3], Ci[2] * ci + cj * cj * Ci[3],
            Ci[3] * (ci + cj)>>)

\* Line 66: new_count = ci + counts[j].
MergedCount(ci, cj) == ci + cj

\* order = np.argsort(counts); for idx in order: the indices the for loop can
\* reach first among those that qualify.  The order is ascending in counts,
\* and the default sort is not stable, so equal counts may come in any order:
\* idx is reached first in some such order iff no index of a strictly smaller
\* count qualifies.
FirstQualifying(cs, cnt, tgt) ==
    {idx \in 1..Len(cs) :
        /\ Qualifies(cs, cnt, tgt, idx)
        /\ \A m \in 1..Len(cs) :
              cnt[m] < cnt[idx] => ~Qualifies(cs, cnt, tgt, m)}

\* One pass of the while loop that merges: the first index of the order that
\* qualifies is merged into its nearest neighbour, and the for loop breaks.
MergePassMerges ==
    /\ UNCHANGED offTiler
    /\ tpc = "merging"
    /\ changed /\ Len(centers) > 1
    /\ \E idx \in FirstQualifying(centers, counts, target_abs) :
         LET j == NearestOther(centers, idx)
             nc == MergedCenter(centers[idx], counts[idx], centers[j], counts[j])
             nn == MergedCount(counts[idx], counts[j])
         IN  /\ centers' = DeleteAt([centers EXCEPT ![j] = nc], idx)
             /\ counts' = DeleteAt([counts EXCEPT ![j] = nn], idx)
             /\ merged' = [ci |-> counts[idx], Ci |-> centers[idx],
                           cj |-> counts[j], Cj |-> centers[j],
                           count |-> nn, center |-> nc]
    /\ nMerges' = nMerges + 1
    /\ nPasses' = nPasses + 1
    /\ changed' = TRUE
    /\ UNCHANGED <<tpc, xy_full, target_abs, keepInv, K, kept, labels_full,
                   tiles, neighbors>>

\* One pass of the while loop in which no index qualifies.
MergePassStable ==
    /\ UNCHANGED offTiler
    /\ tpc = "merging"
    /\ changed /\ Len(centers) > 1
    /\ \A idx \in 1..Len(centers) :
         ~Qualifies(centers, counts, target_abs, idx)
    /\ changed' = FALSE
    /\ nPasses' = nPasses + 1
    /\ UNCHANGED <<tpc, xy_full, target_abs, keepInv, K, kept, centers,
                   counts, labels_full, tiles, neighbors, merged, nMerges>>

\* The while condition fails: return centers, counts.
MergeReturn ==
    /\ UNCHANGED offTiler
    /\ tpc = "merging"
    /\ ~(changed /\ Len(centers) > 1)
    /\ tpc' = "merged"
    /\ UNCHANGED <<xy_full, target_abs, keepInv, K, kept, centers, counts,
                   labels_full, tiles, neighbors, changed, merged, nMerges, nPasses>>

\* ------------------------------------------------- assignment and export
\* L*L times the squared distance of the point p and the centre c.
PointDist2(p, c, L) ==
    LET a == Scaled(c, L)
    IN  (p[1] * L - a[1]) * (p[1] * L - a[1])
          + (p[2] * L - a[2]) * (p[2] * L - a[2])

\* tree.query(xy_full, k=1): the indices of the centres nearest to p; which
\* of several equidistant centres the tree returns is not specified.
NearestCenters(cs, p) ==
    LET L == LcmDen(cs)
    IN  {j \in 1..Len(cs) : \A k \in 1..Len(cs) :
            PointDist2(p, cs[j], L) <= PointDist2(p, cs[k], L)}

\* np.bincount(labels_full, minlength=len(centers)).
Bincount(lab, n) == [c \in 1..n |-> Cardinality({p \in DOMAIN lab : lab[p] = c})]

\* The labelings the query may return: every point at one of its nearest
\* centres.
NearestLabelings(cs, pts) ==
    LET tied == {p \in pts : Cardinality(NearestCenters(cs, p)) > 1}
    IN  {[p \in pts |-> IF p \in tied THEN pick[p]
                        ELSE CHOOSE j \in NearestCenters(cs, p) : TRUE] :
            pick \in {f \in [tied -> 1..Len(cs)] :
                        \A p \in tied : f[p] \in NearestCenters(cs, p)}}

AssignAll ==
    /\ UNCHANGED offTiler
    /\ tpc = "merged"
    /\ \E lab \in NearestLabelings(centers, xy_full) :
         /\ labels_full' = lab
         /\ counts' = Bincount(lab, Len(centers))
    /\ tpc' = "assigned"
    /\ UNCHANGED <<xy_full, target_abs, keepInv, K, kept, centers, tiles,
                   neighbors, changed, merged, nMerges, nPasses>>

\* A sort by x first, then by -y.
LexBeforeXFirst(cs, i, j) ==
    LET yi == cs[i][2] * cs[j][3]
        yj == cs[j][2] * cs[i][3]
        xi == cs[i][1] * cs[j][3]
        xj == cs[j][1] * cs[i][3]
    IN  \/ xi < xj
        \/ xi = xj /\ yi > yj
        \/ yi = yj /\ xi = xj /\ i < j

\* np.lexsort((centers[:,0], -centers[:,1])): by -y, then by x; the sort is
\* stable, so equal keys keep their index order.
LexBefore(cs, i, j) ==
    LET yi == cs[i][2] * cs[j][3]
        yj == cs[j][2] * cs[i][3]
        xi == cs[i][1] * cs[j][3]
        xj == cs[j][1] * cs[i][3]
    IN  \/ yi > yj
        \/ yi = yj /\ xi < xj
        \/ yi = yj /\ xi = xj /\ i < j

\* The position of index old in the sorted order.
LexRank(cs, old) == 1 + Cardinality({j \in 1..Len(cs) : LexBefore(cs, j, old)})

\* order[new_id] = old_id.
LexOrder(cs) ==
    [n \in 1..Len(cs) |-> CHOOSE old \in 1..Len(cs) : LexRank(cs, old) = n]

\* Lines 155-165: centres, counts and labels move together.
Renumber ==
    /\ UNCHANGED offTiler
    /\ tpc = "assigned"
    /\ LET order == LexOrder(centers)
           newId == [old \in 1..Len(centers) |-> LexRank(centers, old)]
       IN  /\ centers' = [n \in 1..Len(centers) |-> centers[order[n]]]
           /\ counts' = [n \in 1..Len(centers) |-> counts[order[n]]]
           /\ labels_full' = [p \in xy_full |-> newId[labels_full[p]]]
    /\ tpc' = "renumbered"
    /\ UNCHANGED <<xy_full, target_abs, keepInv, K, kept, tiles, neighbors,
                   changed, merged, nMerges, nPasses>>

\* Lines 168-177: one PCD per cluster that owns at least one point.
ExportedTiles(lab, n) ==
    [cid \in {c \in 1..n : \E p \in DOMAIN lab : lab[p] = c} |->
        {p \in DOMAIN lab : lab[p] = cid}]

Export ==
    /\ UNCHANGED offTiler
    /\ tpc = "renumbered"
    /\ tiles' = ExportedTiles(labels_full, Len(centers))
    /\ neighbors' = <<>>
    /\ tpc' = "exported"
    /\ UNCHANGED <<xy_full, target_abs, keepInv, K, kept, centers, counts,
                   labels_full, changed, merged, nMerges, nPasses>>

RECURSIVE AscendingSeqs(_, _, _)
\* The sequences of k elements of S in ascending order of key, least first.
AscendingSeqs(S, key, k) ==
    IF k = 0 \/ S = {} THEN {<<>>}
    ELSE LET least == {x \in S : \A y \in S : key[x] <= key[y]}
         IN  UNION {{<<x>> \o t : t \in AscendingSeqs(S \ {x}, key, k - 1)} :
                      x \in least}

\* tree_centers.query(c, k=min(7, len(centers))): min(7, M) indices, the
\* centre's own among them, in ascending distance; equal distances come in
\* an order the tree does not specify.
QueryOrders(cs, cid) ==
    LET L == LcmDen(cs)
        key == [j \in 1..Len(cs) |-> Dist2(cs[j], cs[cid], L)]
    IN  AscendingSeqs(1..Len(cs), key, Min2(7, Len(cs)))

\* query(c, k) with k = 1 squeezes the last dimension: dists and idxs are
\* scalars, and idxs[1:] (line 192) raises.
QuerySqueezes(cs) == Min2(7, Len(cs)) = 1

\* Lines 190-205, one iteration: neighbor_ids = idxs[1:].
BuildNeighbors ==
    /\ UNCHANGED offTiler
    /\ tpc = "exported"
    /\ ~QuerySqueezes(centers)
    /\ Len(neighbors) < Len(centers)
    /\ \E idxs \in QueryOrders(centers, Len(neighbors) + 1) :
         neighbors' = Append(neighbors, Tail(idxs))
    /\ UNCHANGED <<tpc, xy_full, target_abs, keepInv, K, kept, centers,
                   counts, labels_full, tiles, changed, merged, nMerges, nPasses>>

\* Line 192 on a scalar: the run ends before neighbors.json is written; the
\* tile files of lines 168-177 stay on disk.
BuildNeighborsRaises ==
    /\ UNCHANGED offTiler
    /\ tpc = "exported"
    /\ QuerySqueezes(centers)
    /\ tpc' = "failed"
    /\ UNCHANGED <<xy_full, target_abs, keepInv, K, kept, centers, counts,
                   labels_full, tiles, neighbors, changed, merged, nMerges, nPasses>>

FinishTiler ==
    /\ UNCHANGED offTiler
    /\ tpc = "exported"
    /\ Len(neighbors) = Len(centers)
    /\ tpc' = "done"
    /\ UNCHANGED <<xy_full, target_abs, keepInv, K, kept, centers, counts,
                   labels_full, tiles, neighbors, changed, merged, nMerges, nPasses>>

TilerInit ==
    /\ tpc = "start"
    /\ xy_full \in Clouds
    /\ target_abs \in 1..MaxTarget
    /\ keepInv \in 1..MaxKeepInv
    /\ K = 0
    /\ kept = {}
    /\ centers = <<>>
    /\ counts = <<>>
    /\ labels_full = <<>>
    /\ tiles = <<>>
    /\ neighbors = <<>>
    /\ changed = FALSE
    /\ merged = <<>>
    /\ nMerges = 0
    /\ nPasses = 0
    /\ GroundIdle /\ MapperIdle /\ BoxIdle /\ ProjectorIdle

TilerNext ==
    \/ StartTiler
    \/ Downsample
    \/ KMeansFit
    \/ KMeansRaises
    \/ MergePassMerges
    \/ MergePassStable
    \/ MergeReturn
    \/ AssignAll
    \/ Renumber
    \/ Export
    \/ BuildNeighbors
    \/ BuildNeighborsRaises
    \/ FinishTiler


\* merge_centers_until_stable on its own: any K >= 1 centres with positive
\* counts (a k-means cluster owns at least one sample point).
MergeCoords == {<<0, 0, 1>>, <<4, 0, 1>>, <<1, 2, 1>>, <<1, 1, 2>>}

MergeInit ==
    /\ tpc = "merging"
    /\ xy_full = {}
    /\ target_abs \in 1..MaxTarget
    /\ keepInv = 1
    /\ K \in 1..MaxK
    /\ kept = {}
    /\ centers \in [1..K -> MergeCoords]
    /\ counts \in [1..K -> 1..MaxCount]
    /\ labels_full = <<>>
    /\ tiles = <<>>
    /\ neighbors = <<>>
    /\ changed = TRUE
    /\ merged = <<>>
    /\ nMerges = 0
    /\ nPasses = 0
    /\ GroundIdle /\ MapperIdle /\ BoxIdle /\ ProjectorIdle

MergeNext ==
    \/ MergePassMerges
    \/ MergePassStable
    \/ MergeReturn


\* =========================================================================
\* GroundEstimator: ground_detection.py
\* =========================================================================
\* A cloud is a bag of points <<x, y, z>> (centimetres).  A plane normal is
\* an integer vector at scale 1000, an offset D is at scale 1000 cm.

\* Program constants (argparse defaults and literals).
MinFitPoints == 50
AngleSoft == 5
AngleHard == 10
MinNz == 900
NScale == 1000

RECURSIVE IsqrtBetween(_, _, _)
\* The integer square root of x, between lo and hi.
IsqrtBetween(x, lo, hi) ==
    IF lo >= hi THEN lo
    ELSE LET mid == (lo + hi + 1) \div 2
         IN  IF mid * mid <= x THEN IsqrtBetween(x, mid, hi)
             ELSE IsqrtBetween(x, lo, mid - 1)

Isqrt(x) == IsqrtBetween(x, 0, 46340)

\* a / b rounded to the nearest integer (b > 0).
RoundDiv(a, b) ==
    IF a >= 0 THEN (2 * a + b) \div (2 * b) ELSE -((2 * (-a) + b) \div (2 * b))

Dot3(a, b) == a[1] * b[1] + a[2] * b[2] + a[3] * b[3]

Neg3(a) == <<-a[1], -a[2], -a[3]>>

\* 10^6 * cos(d degrees) for d = 0..90, at index d + 1.
CosTab ==
  <<1000000, 999848, 999391, 998630, 997564, 996195, 994522, 992546,
    990268, 987688, 984808, 981627, 978148, 974370, 970296, 965926,
    961262, 956305, 951057, 945519, 939693, 933580, 927184, 920505,
    913545, 906308, 898794, 891007, 882948, 874620, 866025, 857167,
    848048, 838671, 829038, 819152, 809017, 798636, 788011, 777146,
    766044, 754710, 743145, 731354, 719340, 707107, 694658, 681998,
    669131, 656059, 642788, 629320, 615661, 601815, 587785, 573576,
    559193, 544639, 529919, 515038, 500000, 484810, 469472, 453990,
    438371, 422618, 406737, 390731, 374607, 358368, 342020, 325568,
    309017, 292372, 275637, 258819, 241922, 224951, 207912, 190809,
    173648, 156434, 139173, 121869, 104528, 87156, 69756, 52336,
    34899, 17452, 0>>

\* angle_deg: degrees(arccos(clip(n1.n2, -1, 1))), rounded up to a whole
\* degree, so that "angle > t" is exact for a whole threshold t.
angle_deg(n1, n2) ==
    LET d == Dot3(n1, n2)
        c == IF d > NScale * NScale THEN NScale * NScale
             ELSE IF d < -(NScale * NScale) THEN -(NScale * NScale) ELSE d
    IN  IF c >= 0
        THEN CHOOSE a \in 0..90 :
                /\ CosTab[a + 1] <= c
                /\ \A b \in 0..90 : CosTab[b + 1] <= c => a <= b
        ELSE 180 - (CHOOSE a \in 0..90 :
                /\ CosTab[a + 1] >= -c
                /\ \A b \in 0..90 : CosTab[b + 1] >= -c => a >= b)

RECURSIVE InsertSorted(_, _)
InsertSorted(s, x) ==
    IF s = <<>> THEN <<x>>
    ELSE IF x <= Head(s) THEN <<x>> \o s
    ELSE <<Head(s)>> \o InsertSorted(Tail(s), x)

RECURSIVE SortAsc(_)
SortAsc(s) == IF s = <<>> THEN <<>> ELSE InsertSorted(SortAsc(Tail(s)), Head(s))

\* Twice np.median of a non-empty sequence (the mean of the two middle
\* elements when the length is even).
Median2(s) ==
    LET t == SortAsc(s)
        n == Len(t)
    IN  IF n % 2 = 1 THEN 2 * t[(n + 1) \div 2]
        ELSE t[n \div 2] + t[n \div 2 + 1]

MaxSeq(s) == CHOOSE x \in {s[i] : i \in 1..Len(s)} : \A i \in 1..Len(s) : s[i] <= x

\* ------------------------------------------------------------- clouds
BagSize(B) == SumOver(DOMAIN B, B)

\* The points of B that satisfy keep, with their multiplicities.
BagFilter(B, keep) == [q \in {r \in DOMAIN B : keep[r]} |-> B[q]]

\* The k-th smallest z of the cloud, k counted from 0.
ZAt(B, k) ==
    LET zs == {q[3] : q \in DOMAIN B}
        upTo(v) == BagSize(BagFilter(B, [q \in DOMAIN B |-> q[3] <= v]))
    IN  CHOOSE v \in zs : upTo(v) > k /\ \A w \in zs : upTo(w) > k => v <= w

\* 10 * np.quantile(z, 0.3): linear interpolation at (n - 1) * 0.3.
Quantile30x10(B) ==
    LET n == BagSize(B)
        lo == (3 * (n - 1)) \div 10
        r == (3 * (n - 1)) % 10
        zlo == ZAt(B, lo)
        zhi == IF r = 0 THEN zlo ELSE ZAt(B, lo + 1)
    IN  10 * zlo + r * (zhi - zlo)

\* The candidate points of both the fit and the repair: z <= quantile + 0.25,
\* or all points when fewer than 50 remain.
Candidates(B) ==
    LET cut == Quantile30x10(B)
        cand == BagFilter(B, [q \in DOMAIN B |-> 10 * q[3] <= cut + 250])
    IN  IF BagSize(cand) < MinFitPoints THEN B ELSE cand

\* The clouds the tiles are drawn from: too few points for a fit; a ground
\* sheet with an object on it; a cloud whose low band holds under 50 points.
CloudCatalog ==
    { [q \in {<<0, 0, 0>>} |-> 10],
      (<<0, 0, 0>> :> 30) @@ (<<200, 0, 0>> :> 20) @@ (<<0, 200, 5>> :> 10)
         @@ (<<100, 0, 14>> :> 2) @@ (<<100, 100, 150>> :> 8),
      (<<0, 0, 0>> :> 20) @@ (<<50, 0, 100>> :> 40) }


\* ------------------------------------------------------- fit_ground_plane
\* What segment_plane (RANSAC, an external randomized routine) may return:
\* a plane model <<A, B, C, D>>, not normalized and of either sign, and the
\* inliers, given here as tenths of the candidate points.
RansacOutcomes ==
    { [model |-> <<0, 0, 2, 0>>, inl10 |-> 8],
      [model |-> <<0, 0, -1000, 2000>>, inl10 |-> 8],
      [model |-> <<105, 0, 995, -2000>>, inl10 |-> 2],
      [model |-> <<105, 0, 995, -2000>>, inl10 |-> 8],
      [model |-> <<-416, 0, -1956, 0>>, inl10 |-> 8],
      [model |-> <<500, 0, 866, 0>>, inl10 |-> 8] }

\* The normalization without the flip.
NormalizeNoFlip(model) ==
    LET norm == Isqrt(model[1] * model[1] + model[2] * model[2]
                        + model[3] * model[3])
    IN  [n |-> <<RoundDiv(model[1] * NScale, norm),
                 RoundDiv(model[2] * NScale, norm),
                 RoundDiv(model[3] * NScale, norm)>>,
         D |-> RoundDiv(model[4] * NScale, norm)]

\* Lines 57-66: n /= norm, D /= norm, then (n, D) flipped when n_z < 0.
NormalizePlane(model) ==
    LET norm == Isqrt(model[1] * model[1] + model[2] * model[2]
                        + model[3] * model[3])
        n == <<RoundDiv(model[1] * NScale, norm), RoundDiv(model[2] * NScale, norm),
               RoundDiv(model[3] * NScale, norm)>>
        D == RoundDiv(model[4] * NScale, norm)
    IN  IF n[3] < 0 THEN [n |-> Neg3(n), D |-> -D] ELSE [n |-> n, D |-> D]

\* fit_ground_plane returns None: under 50 points, or a zero normal.
FitFails(B, o) ==
    \/ BagSize(B) < MinFitPoints
    \/ o.model[1] = 0 /\ o.model[2] = 0 /\ o.model[3] = 0

\* fit_ground_plane's result (n, D, inlier_ratio, nz); the inlier ratio is
\* kept as the pair inliers / candidates.
fit_ground_plane(B, o) ==
    LET candN == BagSize(Candidates(B))
        pl == NormalizePlane(o.model)
    IN  [n |-> pl.n, D |-> pl.D, inliers |-> (candN * o.inl10) \div 10,
         cand |-> Max2(1, candN), nz |-> pl.n[3]]

\* Lines 137-147: the Plane record of a fit.
PlaneRecord(res) ==
    [n |-> res.n, D |-> res.D, inliers |-> res.inliers, cand |-> res.cand,
     nz |-> res.nz, good |-> (res.nz >= MinNz)]

NTiles == Len(nb)

\* Step 1, one iteration: the fit returned None.
FitAbsent ==
    /\ UNCHANGED offGround
    /\ gpc = "fit" /\ gcur <= NTiles
    /\ \E o \in RansacOutcomes : FitFails(pcd[gcur], o)
    /\ gcur' = gcur + 1
    /\ fitSeen' = fitSeen \cup {gcur}
    /\ UNCHANGED <<gpc, nb, pcd, split_dist, save_split, planes, suspects,
                   report, splits, fitted>>

\* Step 1, one iteration: the fit returned a plane.
FitPlane ==
    /\ UNCHANGED offGround
    /\ gpc = "fit" /\ gcur <= NTiles
    /\ \E o \in RansacOutcomes :
         /\ ~FitFails(pcd[gcur], o)
         /\ planes' = (gcur :> PlaneRecord(fit_ground_plane(pcd[gcur], o)))
                        @@ planes
    /\ gcur' = gcur + 1
    /\ fitSeen' = fitSeen \cup {gcur}
    /\ UNCHANGED <<gpc, nb, pcd, split_dist, save_split, suspects, report,
                   splits, fitted>>

\* A loop left after its first iteration.
LoopOverAfterOne(cur, n) == cur > 1

\* A for loop over the n tiles is exhausted.
LoopOver(cur, n) == cur > n

\* The for loop of step 1 is exhausted.
FitLoopOver == LoopOver(gcur, NTiles)

\* Step 1 ends, step 2 begins.
FitDone ==
    /\ UNCHANGED offGround
    /\ gpc = "fit" /\ FitLoopOver
    /\ gpc' = "repair"
    /\ gcur' = 1
    /\ fitted' = planes
    /\ UNCHANGED <<nb, pcd, split_dist, save_split, planes, suspects, report,
                   splits, fitSeen>>

\* ------------------------------------------------------------ the repair
\* Line 155: the neighbours of cid that have a Plane in P.
NeighIds(P, cid) == SelectSeq(nb[cid], LAMBDA nid : nid \in DOMAIN P)

\* Lines 152-157: the tile takes no part in the check.
RepairSkips(P, cid) ==
    IF cid \notin DOMAIN P THEN TRUE
    ELSE IF ~P[cid].good THEN TRUE
    ELSE NeighIds(P, cid) = <<>>

\* Line 158.
Angs(P, cid) ==
    [k \in 1..Len(NeighIds(P, cid)) |->
        angle_deg(P[cid].n, P[NeighIds(P, cid)[k]].n)]

\* Lines 159-161: max_ang > angle_hard, or med_ang > angle_soft and
\* inlier_ratio < inlier_min (0.3).
NeedsRepair(P, cid) ==
    LET angs == Angs(P, cid)
        bad_geom == 10 * P[cid].inliers < 3 * P[cid].cand
    IN  \/ MaxSeq(angs) > AngleHard
        \/ Median2(angs) > 2 * AngleSoft /\ bad_geom

\* Lines 163-167: the component-wise median of the neighbours' normals,
\* renormalized and turned upward.
FixedNormal(P, cid) ==
    LET ids == NeighIds(P, cid)
        m == [c \in 1..3 |-> Median2([k \in 1..Len(ids) |-> P[ids[k]].n[c]])]
        norm == Isqrt(m[1] * m[1] + m[2] * m[2] + m[3] * m[3])
        n == IF norm = 0 THEN <<0, 0, 0>>
             ELSE <<RoundDiv(m[1] * NScale, norm), RoundDiv(m[2] * NScale, norm),
                    RoundDiv(m[3] * NScale, norm)>>
    IN  IF n[3] < 0 THEN Neg3(n) ELSE n

\* Lines 169-179: D_fix = -mean(cand @ n_fix) over the candidate points.
FixedD(B, n_fix, D_old) ==
    IF BagSize(B) = 0 THEN D_old
    ELSE LET cand == Candidates(B)
         IN  -RoundDiv(SumOver(DOMAIN cand,
                               [q \in DOMAIN cand |-> cand[q] * Dot3(q, n_fix)]),
                       BagSize(cand))

\* Lines 190-192: n and D replaced, status set; nz and good are not touched.
Repaired(rec, n_fix, D_fix) ==
    [f \in DOMAIN rec \cup {"status"} |->
        IF f = "n" THEN n_fix
        ELSE IF f = "D" THEN D_fix
        ELSE IF f = "status" THEN "repaired"
        ELSE rec[f]]

\* The Plane of tile cid after its turn in step 2, when it reads the Planes
\* P of its neighbours.
RepairOutcome(P, own, cid) ==
    IF RepairSkips(P, cid) \/ ~NeedsRepair(P, cid) THEN own
    ELSE LET n_fix == FixedNormal(P, cid)
         IN  Repaired(own, n_fix, FixedD(pcd[cid], n_fix, own.D))

\* The Planes step 2 reads at the turn of a tile: the dictionary planes
\* itself, as the earlier turns left it.
PlanesRead == planes

RepairSkip ==
    /\ UNCHANGED offGround
    /\ gpc = "repair" /\ gcur <= NTiles
    /\ RepairSkips(PlanesRead, gcur)
    /\ gcur' = gcur + 1
    /\ UNCHANGED <<gpc, nb, pcd, split_dist, save_split, planes, suspects,
                   report, splits, fitted, fitSeen>>

RepairKeep ==
    /\ UNCHANGED offGround
    /\ gpc = "repair" /\ gcur <= NTiles
    /\ ~RepairSkips(PlanesRead, gcur)
    /\ ~NeedsRepair(PlanesRead, gcur)
    /\ gcur' = gcur + 1
    /\ UNCHANGED <<gpc, nb, pcd, split_dist, save_split, planes, suspects,
                   report, splits, fitted, fitSeen>>

RepairFix ==
    /\ UNCHANGED offGround
    /\ gpc = "repair" /\ gcur <= NTiles
    /\ ~RepairSkips(PlanesRead, gcur)
    /\ NeedsRepair(PlanesRead, gcur)
    /\ planes' = [planes EXCEPT
                    ![gcur] = RepairOutcome(PlanesRead, planes[gcur], gcur)]
    /\ suspects' = Append(suspects, gcur)
    /\ gcur' = gcur + 1
    /\ UNCHANGED <<gpc, nb, pcd, split_dist, save_split, report, splits,
                   fitted, fitSeen>>

\* Step 3: report.json and suspects.json are written.
WriteReport ==
    /\ UNCHANGED offGround
    /\ gpc = "repair" /\ gcur > NTiles
    /\ report' = planes
    /\ gpc' = IF save_split THEN "split" ELSE "done"
    /\ gcur' = 1
    /\ UNCHANGED <<nb, pcd, split_dist, save_split, planes, suspects, splits,
                   fitted, fitSeen>>

\* -------------------------------------------------------- split_and_save
\* A mask that leaves out the points exactly at split_dist.
MaskStrictlyBelow(B, n, D, sd) ==
    [q \in DOMAIN B |-> Dot3(q, n) + D < sd * NScale]

\* signed_dist = pts @ n + D; mask_ground = signed_dist <= split_dist.
MaskGround(B, n, D, sd) == [q \in DOMAIN B |-> Dot3(q, n) + D <= sd * NScale]

\* ground_pts = pts[mask_ground], nonground_pts = pts[~mask_ground].
split_and_save(B, n, D, sd) ==
    LET mask == MaskGround(B, n, D, sd)
    IN  [ground |-> BagFilter(B, mask),
         nonground |-> BagFilter(B, [q \in DOMAIN B |-> ~mask[q]])]

\* Step 4, one iteration (over the tiles, those without a Plane passed over):
\* the tile's Plane is not good.
SplitSkip ==
    /\ UNCHANGED offGround
    /\ gpc = "split" /\ gcur <= NTiles
    /\ IF gcur \in DOMAIN planes THEN ~planes[gcur].good ELSE TRUE
    /\ gcur' = gcur + 1
    /\ UNCHANGED <<gpc, nb, pcd, split_dist, save_split, planes, suspects,
                   report, splits, fitted, fitSeen>>

SplitTile ==
    /\ UNCHANGED offGround
    /\ gpc = "split" /\ gcur <= NTiles
    /\ gcur \in DOMAIN planes /\ planes[gcur].good
    /\ splits' = (gcur :> split_and_save(pcd[gcur], planes[gcur].n,
                                         planes[gcur].D, split_dist)) @@ splits
    /\ gcur' = gcur + 1
    /\ UNCHANGED <<gpc, nb, pcd, split_dist, save_split, planes, suspects,
                   report, fitted, fitSeen>>

SplitDone ==
    /\ UNCHANGED offGround
    /\ gpc = "split" /\ gcur > NTiles
    /\ gpc' = "done"
    /\ UNCHANGED <<nb, pcd, split_dist, save_split, gcur, planes, suspects,
                   report, splits, fitted, fitSeen>>

\* neighbors.json as the Tiler writes it for M <= 7 tiles: every tile lists
\* all the others.
OtherTiles(M, cid) == SelectSeq([k \in 1..M |-> k], LAMBDA k : k # cid)

GroundInit ==
    /\ gpc = "fit"
    /\ \E M \in 1..MaxTiles :
         /\ nb = [cid \in 1..M |-> OtherTiles(M, cid)]
         /\ pcd \in [1..M -> CloudCatalog]
    /\ split_dist \in {12, 20}
    /\ save_split \in BOOLEAN
    /\ gcur = 1
    /\ planes = <<>>
    /\ suspects = <<>>
    /\ report = <<>>
    /\ splits = <<>>
    /\ fitted = <<>>
    /\ fitSeen = {}
    /\ TilerIdle /\ MapperIdle /\ BoxIdle /\ ProjectorIdle

GroundNext ==
    \/ FitAbsent
    \/ FitPlane
    \/ FitDone
    \/ RepairSkip
    \/ RepairKeep
    \/ RepairFix
    \/ WriteReport
    \/ SplitSkip
    \/ SplitTile
    \/ SplitDone

\* =========================================================================
\* DetectionMapper: apply_inference.py main(), for one tile.  World lengths
\* are in units of 0.05 m.
\* =========================================================================
\* The 0.2 m that bbox_to_3d adds to the plane height.
Clearance == 4

\* The tile's heightmap metadata: raster size in pixels, origin, resolution
\* (0.1 m per pixel), the tile's Plane (n, D) and max_height (3.0 m).
Meta ==
    [width |-> 8, height |-> 8, origin_xy |-> <<0, 0>>, resolution |-> 2,
     plane |-> [n |-> <<0, 0, 1>>, D |-> -10], max_height |-> 60]

\* int() of the quotient a / b, b > 0: truncation toward zero.
Trunc(a, b) == IF a >= 0 THEN a \div b ELSE -((-a) \div b)

\* The lines a detection file may hold.  A line with six fields carries
\* class, cx, cy, w, h (normalized, here in eighths) and conf (in tenths).
LineCatalog ==
    { [nf |-> 6, cls |-> 0, cx |-> 2, cy |-> 2, w |-> 4, h |-> 4, conf |-> 9],
      [nf |-> 6, cls |-> 0, cx |-> 4, cy |-> 2, w |-> 4, h |-> 4, conf |-> 8],
      [nf |-> 6, cls |-> 1, cx |-> 3, cy |-> 2, w |-> 3, h |-> 4, conf |-> 7],
      [nf |-> 3, cls |-> 0, cx |-> 0, cy |-> 0, w |-> 0, h |-> 0, conf |-> 0] }

\* The points a tile may hold.
MapperPts == { <<6, 4, 20>>, <<7, 4, 20>>, <<6, 4, 12>>, <<10, 4, 20>> }

\* yolo_to_xyxy_conf returns None.
LineIsMalformed(line) == line.nf < 6

\* yolo_to_xyxy_conf: cx, w scaled by the raster size, the corners cx -+ w/2
\* truncated by int().
yolo_to_xyxy_conf(line, img_w, img_h) ==
    [xmin |-> Trunc(2 * line.cx * img_w - line.w * img_w, 16),
     ymin |-> Trunc(2 * line.cy * img_h - line.h * img_h, 16),
     xmax |-> Trunc(2 * line.cx * img_w + line.w * img_w, 16),
     ymax |-> Trunc(2 * line.cy * img_h + line.h * img_h, 16),
     cls |-> line.cls, conf |-> line.conf]

\* Height of the tile's Plane over (x, y).
PlaneZ(meta, x, y) ==
    (-meta.plane.D - meta.plane.n[1] * x - meta.plane.n[2] * y)
        \div meta.plane.n[3]

\* bbox_to_3d: the pixel box in world XY, z from plane + 0.2 to + max_height.
bbox_to_3d(r, meta) ==
    LET x0 == meta.origin_xy[1] + r.xmin * meta.resolution
        x1 == meta.origin_xy[1] + r.xmax * meta.resolution
        y0 == meta.origin_xy[2] + r.ymin * meta.resolution
        y1 == meta.origin_xy[2] + r.ymax * meta.resolution
        z0 == PlaneZ(meta, (x0 + x1) \div 2, (y0 + y1) \div 2) + Clearance
    IN  [x |-> <<Min2(x0, x1), Max2(x0, x1)>>,
         y |-> <<Min2(y0, y1), Max2(y0, y1)>>,
         z |-> <<z0, z0 + meta.max_height>>]

\* Lines 111-115: the centre of the pixel box on the plane.
BoxCenter(r, meta) ==
    LET gx == meta.origin_xy[1] + ((r.xmin + r.xmax) * meta.resolution) \div 2
        gy == meta.origin_xy[2] + ((r.ymin + r.ymax) * meta.resolution) \div 2
    IN  <<gx, gy, PlaneZ(meta, gx, gy)>>

\* Lines 103-119: one entry per well-formed line, "i" the 0-based position
\* of the line among the non-blank lines.
RECURSIVE BboxDefs(_, _)
BboxDefs(ls, k) ==
    IF k > Len(ls) THEN <<>>
    ELSE IF LineIsMalformed(ls[k]) THEN BboxDefs(ls, k + 1)
    ELSE LET r == yolo_to_xyxy_conf(ls[k], Meta.width, Meta.height)
         IN  <<[i |-> k - 1, box |-> bbox_to_3d(r, Meta),
                center |-> BoxCenter(r, Meta), conf |-> r.conf]>>
             \o BboxDefs(ls, k + 1)

\* points_in_box of apply_inference.py, for one point.
PointInBox3(pt, box) ==
    /\ pt[1] >= box.x[1] /\ pt[1] <= box.x[2]
    /\ pt[2] >= box.y[1] /\ pt[2] <= box.y[2]
    /\ pt[3] >= box.z[1] /\ pt[3] <= box.z[2]

\* Lines 125-128: the entries whose box holds the point, in file order.
CandidatesOf(pt) == SelectSeq(bbox_defs, LAMBDA b : PointInBox3(pt, b.box))

\* Square of np.linalg.norm(pt - center).
CenterDist2(pt, c) ==
    (pt[1] - c[1]) * (pt[1] - c[1]) + (pt[2] - c[2]) * (pt[2] - c[2])
        + (pt[3] - c[3]) * (pt[3] - c[3])

\* The last position of the least element.
argmin_last(ds) ==
    CHOOSE k \in 1..Len(ds) :
        /\ \A j \in 1..Len(ds) : ds[k] <= ds[j]
        /\ \A j \in (k + 1)..Len(ds) : ds[j] > ds[k]

\* np.argmin: the first position of the least element.
argmin(ds) ==
    CHOOSE k \in 1..Len(ds) :
        /\ \A j \in 1..Len(ds) : ds[k] <= ds[j]
        /\ \A j \in 1..(k - 1) : ds[j] > ds[k]

\* Lines 129-133: the candidate the point goes to.
Chosen(pt) ==
    LET cands == CandidatesOf(pt)
    IN  IF Len(cands) = 1 THEN cands[1]
        ELSE cands[argmin([k \in 1..Len(cands) |->
                              CenterDist2(pt, cands[k].center)])]

\* assignments[i] is a valid subscript.
SlotExists(i) == i < Len(assignments)

\* Line 81: an empty cloud, the tile is passed over.
MapSkipEmpty ==
    /\ UNCHANGED offMapper
    /\ mpc = "start"
    /\ mpts = <<>>
    /\ mpc' = "skipped"
    /\ UNCHANGED <<mpts, lines, bbox_defs, assignments, midx, mdef, mmask,
                   inference, clean, cleanWritten, inf_summaries, chosenOf>>

\* Lines 91-97: no detection line, the cloud is copied as chunk_clean.
MapCopyChunk ==
    /\ UNCHANGED offMapper
    /\ mpc = "start"
    /\ mpts # <<>>
    /\ lines = <<>>
    /\ clean' = [k \in 1..Len(mpts) |-> k]
    /\ cleanWritten' = TRUE
    /\ mpc' = "done"
    /\ UNCHANGED <<mpts, lines, bbox_defs, assignments, midx, mdef, mmask,
                   inference, inf_summaries, chosenOf>>

\* Lines 103-121: the detection lines are parsed, the slots created.
MapParse ==
    /\ UNCHANGED offMapper
    /\ mpc = "start"
    /\ mpts # <<>>
    /\ lines # <<>>
    /\ bbox_defs' = BboxDefs(lines, 1)
    /\ assignments' = [k \in 1..Len(bbox_defs') |-> <<>>]
    /\ midx' = 1
    /\ mpc' = "assign"
    /\ UNCHANGED <<mpts, lines, mdef, mmask, inference, clean, cleanWritten,
                   inf_summaries, chosenOf>>

\* Lines 124-134, one point: no box holds it.
AssignNone ==
    /\ UNCHANGED offMapper
    /\ mpc = "assign" /\ midx <= Len(mpts)
    /\ CandidatesOf(mpts[midx]) = <<>>
    /\ midx' = midx + 1
    /\ UNCHANGED <<mpc, mpts, lines, bbox_defs, assignments, mdef, mmask,
                   inference, clean, cleanWritten, inf_summaries, chosenOf>>

\* One point: it is appended to the slot of the chosen candidate.
AssignStore ==
    /\ UNCHANGED offMapper
    /\ mpc = "assign" /\ midx <= Len(mpts)
    /\ CandidatesOf(mpts[midx]) # <<>>
    /\ LET b == Chosen(mpts[midx])
       IN  /\ SlotExists(b.i)
           /\ assignments' = [assignments EXCEPT ![b.i + 1] = Append(@, midx)]
           /\ chosenOf' = (midx :> b.i) @@ chosenOf
    /\ midx' = midx + 1
    /\ UNCHANGED <<mpc, mpts, lines, bbox_defs, mdef, mmask, inference, clean,
                   cleanWritten, inf_summaries>>

\* One point: the chosen candidate's "i" is no subscript of assignments,
\* the IndexError ends the run.
AssignRaises ==
    /\ UNCHANGED offMapper
    /\ mpc = "assign" /\ midx <= Len(mpts)
    /\ CandidatesOf(mpts[midx]) # <<>>
    /\ LET b == Chosen(mpts[midx])
       IN  /\ ~SlotExists(b.i)
           /\ chosenOf' = (midx :> b.i) @@ chosenOf
    /\ mpc' = "crashed"
    /\ UNCHANGED <<mpts, lines, bbox_defs, assignments, midx, mdef, mmask,
                   inference, clean, cleanWritten, inf_summaries>>

\* The loop over the points is exhausted.
AssignDone ==
    /\ UNCHANGED offMapper
    /\ mpc = "assign" /\ midx > Len(mpts)
    /\ mpc' = "write"
    /\ mdef' = 1
    /\ UNCHANGED <<mpts, lines, bbox_defs, assignments, midx, mmask,
                   inference, clean, cleanWritten, inf_summaries, chosenOf>>

\* Lines 139-140, one entry: its "i" is no subscript of assignments.
WriteRaises ==
    /\ UNCHANGED offMapper
    /\ mpc = "write" /\ mdef <= Len(bbox_defs)
    /\ ~SlotExists(bbox_defs[mdef].i)
    /\ mpc' = "crashed"
    /\ UNCHANGED <<mpts, lines, bbox_defs, assignments, midx, mdef, mmask,
                   inference, clean, cleanWritten, inf_summaries, chosenOf>>

\* Lines 141-142, one entry: nothing was assigned to it.
WriteSkip ==
    /\ UNCHANGED offMapper
    /\ mpc = "write" /\ mdef <= Len(bbox_defs)
    /\ SlotExists(bbox_defs[mdef].i)
    /\ assignments[bbox_defs[mdef].i + 1] = <<>>
    /\ mdef' = mdef + 1
    /\ UNCHANGED <<mpc, mpts, lines, bbox_defs, assignments, midx, mmask,
                   inference, clean, cleanWritten, inf_summaries, chosenOf>>

\* Lines 143-164, one entry: its Object cloud and summary are written.
WriteObject ==
    /\ UNCHANGED offMapper
    /\ mpc = "write" /\ mdef <= Len(bbox_defs)
    /\ SlotExists(bbox_defs[mdef].i)
    /\ LET b == bbox_defs[mdef]
           inds == assignments[b.i + 1]
       IN  /\ inds # <<>>
           /\ inference' = (b.i :> inds) @@ inference
           /\ mmask' = mmask \cup {inds[k] : k \in 1..Len(inds)}
           /\ inf_summaries' = Append(inf_summaries,
                  [id |-> b.i, confidence |-> b.conf, points |-> Len(inds)])
    /\ mdef' = mdef + 1
    /\ UNCHANGED <<mpc, mpts, lines, bbox_defs, assignments, midx, clean,
                   cleanWritten, chosenOf>>

\* pts[mask_remove]: the mask taken the wrong way round.
MaskedIndices(mask) ==
    SelectSeq([k \in 1..Len(mpts) |-> k], LAMBDA k : k \in mask)

\* Line 167: pts[~mask_remove], as point indices.
CleanIndices(mask) ==
    SelectSeq([k \in 1..Len(mpts) |-> k], LAMBDA k : k \notin mask)

\* Lines 167-171: the points outside mask_remove are written.
WriteClean ==
    /\ UNCHANGED offMapper
    /\ mpc = "write" /\ mdef > Len(bbox_defs)
    /\ clean' = CleanIndices(mmask)
    /\ cleanWritten' = TRUE
    /\ mpc' = "done"
    /\ UNCHANGED <<mpts, lines, bbox_defs, assignments, midx, mdef, mmask,
                   inference, inf_summaries, chosenOf>>

\* All sequences over S of length 0..n.
SeqsUpTo(S, n) == UNION {[1..k -> S] : k \in 0..n}

MapperInit ==
    /\ mpc = "start"
    /\ mpts \in SeqsUpTo(MapperPts, MaxMPts)
    /\ lines \in SeqsUpTo(LineCatalog, MaxLines)
    /\ bbox_defs = <<>>
    /\ assignments = <<>>
    /\ midx = 0
    /\ mdef = 0
    /\ mmask = {}
    /\ inference = <<>>
    /\ clean = <<>>
    /\ cleanWritten = FALSE
    /\ inf_summaries = <<>>
    /\ chosenOf = <<>>
    /\ TilerIdle /\ GroundIdle /\ BoxIdle /\ ProjectorIdle

MapperNext ==
    \/ MapSkipEmpty
    \/ MapCopyChunk
    \/ MapParse
    \/ AssignNone
    \/ AssignStore
    \/ AssignRaises
    \/ AssignDone
    \/ WriteRaises
    \/ WriteSkip
    \/ WriteObject
    \/ WriteClean

\* =========================================================================
\* BoxEditor: process_pcd.py.  Lengths are in cm; yaw is in quarter turns,
\* whose sine and cosine are exact.
\* =========================================================================
\* fill_surface_points' default density, points per square metre.
Density == 30

CosQ(q) == <<1, 0, -1, 0>>[(q % 4) + 1]
SinQ(q) == <<0, 1, 0, -1>>[(q % 4) + 1]

\* pts @ R.T for R the rotation about Z by q quarter turns.
RotZ(p, q) ==
    <<CosQ(q) * p[1] - SinQ(q) * p[2], SinQ(q) * p[1] + CosQ(q) * p[2], p[3]>>

\* convert_bbox_coords: centre (cx, -cz, cy), size (sx, sz, sy).
convert_bbox_coords(center, size) ==
    [center |-> <<center[1], -center[3], center[2]>>,
     size |-> <<size[1], size[3], size[2]>>]

\* points_in_box of process_pcd.py, for one point: the point is moved to
\* the centre, turned by -yaw and compared with the half sizes.
points_in_box(p, center, size, yaw) ==
    LET rot == RotZ(<<p[1] - center[1], p[2] - center[2], p[3] - center[3]>>,
                    -yaw)
    IN  /\ 2 * Abs(rot[1]) <= size[1]
        /\ 2 * Abs(rot[2]) <= size[2]
        /\ 2 * Abs(rot[3]) <= size[3]

\* A count rounded up.
NPointsCeil(size) == (size[1] * size[2] * Density + 9999) \div 10000

\* n_points = int(area * density), area = dx * dy in square metres.
NPoints(size) == (size[1] * size[2] * Density) \div 10000

\* The values np.random.uniform may draw for one point, in the box's frame:
\* the lower ends of the three ranges, and a point 1 cm short of the upper
\* ends in x and y at the top of the band.
LocalDraws(size) ==
    LET dz_fill == (size[3] * 5) \div 100
    IN  { <<-(size[1] \div 2), -(size[2] \div 2), -(size[3] \div 2)>>,
          <<size[1] \div 2 - 1, size[2] \div 2 - 1,
            -(size[3] \div 2) + dz_fill>> }

\* fill_surface_points: n_points local draws, turned by yaw, moved to the
\* centre; the set of the arrays it may return.
fill_surface_points(center, size, yaw) ==
    { [k \in 1..NPoints(size) |->
          LET r == RotZ(loc[k], yaw)
          IN  <<r[1] + center[1], r[2] + center[2], r[3] + center[3]>>] :
      loc \in [1..NPoints(size) -> LocalDraws(size)] }

\* mask_remove replaced by the last box's mask.
MaskReplace(old, mask) == mask

\* mask_remove |= mask.
MaskUnion(old, mask) == old \cup mask

\* Line 104: the input points inside the box.
BoxMask(box) ==
    LET cv == convert_bbox_coords(box.center, box.size)
    IN  {k \in 1..Len(points) :
            points_in_box(points[k], cv.center, cv.size, box.yaw)}

\* One turn of the loop, for a box without fill_surface.
BoxRemove ==
    /\ UNCHANGED offBox
    /\ bpc = "boxes" /\ bi <= Len(bboxes)
    /\ ~bboxes[bi].fill_surface
    /\ mask_remove' = MaskUnion(mask_remove, BoxMask(bboxes[bi]))
    /\ fillOf' = Append(fillOf, <<>>)
    /\ bi' = bi + 1
    /\ UNCHANGED <<bpc, points, bboxes, new_points, output, nKept>>

\* One turn of the loop, for a box with fill_surface.
BoxRemoveFill ==
    /\ UNCHANGED offBox
    /\ bpc = "boxes" /\ bi <= Len(bboxes)
    /\ bboxes[bi].fill_surface
    /\ mask_remove' = MaskUnion(mask_remove, BoxMask(bboxes[bi]))
    /\ LET cv == convert_bbox_coords(bboxes[bi].center, bboxes[bi].size)
       IN  \E pts_fill \in fill_surface_points(cv.center, cv.size,
                                                bboxes[bi].yaw) :
              /\ new_points' = Append(new_points, pts_fill)
              /\ fillOf' = Append(fillOf, pts_fill)
    /\ bi' = bi + 1
    /\ UNCHANGED <<bpc, points, bboxes, output, nKept>>

RECURSIVE Vstack(_)
\* np.vstack of a list of arrays.
Vstack(arrs) == IF arrs = <<>> THEN <<>> ELSE Head(arrs) \o Vstack(Tail(arrs))

\* points[mask_remove]: the mask taken the wrong way round.
PointsRemoved ==
    LET gone == SelectSeq([k \in 1..Len(points) |-> k],
                          LAMBDA k : k \in mask_remove)
    IN  [j \in 1..Len(gone) |-> points[gone[j]]]

\* points[~mask_remove].
PointsFiltered ==
    LET keep == SelectSeq([k \in 1..Len(points) |-> k],
                          LAMBDA k : k \notin mask_remove)
    IN  [j \in 1..Len(keep) |-> points[keep[j]]]

\* Lines 114-120: the kept points and the synthesized ones are saved.
BoxSave ==
    /\ UNCHANGED offBox
    /\ bpc = "boxes" /\ bi > Len(bboxes)
    /\ output' = PointsFiltered \o Vstack(new_points)
    /\ nKept' = Len(PointsFiltered)
    /\ bpc' = "done"
    /\ UNCHANGED <<points, bboxes, bi, mask_remove, new_points, fillOf>>

\* The boxes a box file may hold: centre and size as the file gives them.
BoxCatalog ==
    { [center |-> <<0, 0, 0>>, size |-> <<40, 40, 20>>, yaw |-> 0,
       fill_surface |-> TRUE],
      [center |-> <<0, 0, 0>>, size |-> <<40, 40, 20>>, yaw |-> 1,
       fill_surface |-> FALSE],
      [center |-> <<20, 0, 0>>, size |-> <<20, 20, 20>>, yaw |-> 0,
       fill_surface |-> TRUE],
      [center |-> <<0, 0, -100>>, size |-> <<40, 40, 30>>, yaw |-> 1,
       fill_surface |-> TRUE] }

\* The points an input cloud may hold.
BoxPts ==
    { <<0, 0, 0>>, <<15, 0, 0>>, <<0, 15, 0>>, <<0, 110, 0>>, <<100, 0, 0>> }

BoxInit ==
    /\ bpc = "boxes"
    /\ points \in SeqsUpTo(BoxPts, MaxBPts)
    /\ bboxes \in SeqsUpTo(BoxCatalog, MaxBoxes)
    /\ bi = 1
    /\ mask_remove = {}
    /\ new_points = <<>>
    /\ output = <<>>
    /\ nKept = 0
    /\ fillOf = <<>>
    /\ TilerIdle /\ GroundIdle /\ MapperIdle /\ ProjectorIdle

BoxNext ==
    \/ BoxRemove
    \/ BoxRemoveFill
    \/ BoxSave

\* =========================================================================
\* HeightProjector: render_heightmaps.py, for one tile, with the arguments
\* the pipeline passes.  Lengths are in cm; the grid is computed in units
\* of eps = 1e-6 m.
\* =========================================================================
\* The pipeline's --split_dist 0.20, --res 0.2 and --max_height 3.0, in cm,
\* and the largest value of an 8-bit PNG.
PipeSplitDist == 20
PipeRes == 20
PipeMaxHeight == 300
Maxval == 255

\* Units of eps per cm.
EpsPerCm == 10000

\* The points a tile may hold.
ProjPts ==
    { <<0, 0, 0>>, <<5, 5, 100>>, <<15, 5, 150>>, <<45, 5, 350>>,
      <<5, 45, 50>> }

\* The Planes the report may hold for a tile that was split: level at z = 0,
\* level at z = 20 cm, and a Plane with n.z = 0 left by a repair.
ProjPlanes ==
    { [n |-> <<0, 0, 1000>>, D |-> 0],
      [n |-> <<0, 0, 1000>>, D |-> -20000],
      [n |-> <<1000, 0, 0>>, D |-> 0] }

\* The cloud as a bag.
BagOfSeq(pts) ==
    [q \in {pts[k] : k \in 1..Len(pts)} |->
        Cardinality({k \in 1..Len(pts) : pts[k] = q})]

\* split_and_save's pts[~mask_ground], in file order.
NongroundPts(pts, pl, sd) ==
    LET mask == MaskGround(BagOfSeq(pts), pl.n, pl.D, sd)
    IN  SelectSeq(pts, LAMBDA q : ~mask[q])

\* ground_detection.py lines 98-101: the non-ground file of the tile is
\* written only when it has points.
HSplit ==
    /\ UNCHANGED offProjector
    /\ hpc = "split"
    /\ LET ng == NongroundPts(tile_pts, hplane, PipeSplitDist)
       IN  ng_file' = IF ng # <<>> THEN [exists |-> TRUE, pts |-> ng]
                      ELSE NoFile
    /\ hpc' = "listed"
    /\ UNCHANGED <<tile_pts, hplane, cap_mode, hxyh, raster>>

\* Lines 156, 166: the tile has no file in the non-ground directory, the loop
\* has no turn for it.
HNotListed ==
    /\ UNCHANGED offProjector
    /\ hpc = "listed"
    /\ ~ng_file.exists
    /\ hpc' = "done"
    /\ UNCHANGED <<tile_pts, hplane, cap_mode, ng_file, hxyh, raster>>

\* Lines 176-179: the Plane turned upward when n.z <= 0.
UpPlane(pl) ==
    IF pl.n[3] <= 0 THEN [n |-> Neg3(pl.n), D |-> -pl.D] ELSE pl

\* The metadata of a 1x1 raster (lines 190-200, 228-238).
Meta1x1 ==
    [width |-> 1, height |-> 1, resolution |-> PipeRes, origin_xy |-> <<0, 0>>,
     plane |-> UpPlane(hplane), max_height |-> PipeMaxHeight,
     cap_mode |-> cap_mode, bits |-> 8]

\* The 1x1 raster of value 0 with its metadata.
Raster1x1 ==
    [exists |-> TRUE, img |-> (<<0, 0>> :> 0), png |-> (<<0, 0>> :> 0),
     meta |-> Meta1x1]

\* Lines 184-204: the non-ground file holds no point.
HEmptyCloud ==
    /\ UNCHANGED offProjector
    /\ hpc = "listed"
    /\ ng_file.exists
    /\ ng_file.pts = <<>>
    /\ raster' = Raster1x1
    /\ hpc' = "done"
    /\ UNCHANGED <<tile_pts, hplane, cap_mode, ng_file, hxyh>>

\* plane_z_at_xy returns None.
PlaneIsVertical(pl) == pl.n[3] = 0

\* plane_z_at_xy: (-D - n0 x - n1 y) / C.
plane_z_at_xy(pl, x, y) ==
    RoundDiv(-pl.D - pl.n[1] * x - pl.n[2] * y, pl.n[3])

\* Lines 209-211: the Plane is vertical, the tile is passed over.
HVertical ==
    /\ UNCHANGED offProjector
    /\ hpc = "listed"
    /\ ng_file.exists
    /\ ng_file.pts # <<>>
    /\ PlaneIsVertical(UpPlane(hplane))
    /\ hpc' = "skipped"
    /\ UNCHANGED <<tile_pts, hplane, cap_mode, ng_file, hxyh, raster>>

\* Lines 207-213: x, y and h = max(z - zpl, 0) of every point.
HeightsOf(pts, pl) ==
    [k \in 1..Len(pts) |->
        <<pts[k][1], pts[k][2],
          Max2(pts[k][3] - plane_z_at_xy(pl, pts[k][1], pts[k][2]), 0)>>]

\* A cap that clamps whatever the mode.
CapClampOnly(mode, xyh) ==
    [k \in 1..Len(xyh) |-> <<xyh[k][1], xyh[k][2], Min2(xyh[k][3], PipeMaxHeight)>>]

\* Lines 216-221: drop keeps the points with h <= max_height, clamp keeps
\* all with h = min(h, max_height).
CapHeights(mode, xyh) ==
    IF mode = "drop" THEN SelectSeq(xyh, LAMBDA r : r[3] <= PipeMaxHeight)
    ELSE [k \in 1..Len(xyh) |->
             <<xyh[k][1], xyh[k][2], Min2(xyh[k][3], PipeMaxHeight)>>]

\* Lines 207-221.
HHeights ==
    /\ UNCHANGED offProjector
    /\ hpc = "listed"
    /\ ng_file.exists
    /\ ng_file.pts # <<>>
    /\ ~PlaneIsVertical(UpPlane(hplane))
    /\ hxyh' = CapHeights(cap_mode, HeightsOf(ng_file.pts, UpPlane(hplane)))
    /\ hpc' = "clipped"
    /\ UNCHANGED <<tile_pts, hplane, cap_mode, ng_file, raster>>

\* Lines 223-242: every point was dropped.
HAllDropped ==
    /\ UNCHANGED offProjector
    /\ hpc = "clipped"
    /\ hxyh = <<>>
    /\ raster' = Raster1x1
    /\ hpc' = "done"
    /\ UNCHANGED <<tile_pts, hplane, cap_mode, ng_file, hxyh>>

\* ------------------------------------------------------ rasterize_height
\* ceil(a / b) for a >= 0, b > 0.
CeilDiv(a, b) == (a + b - 1) \div b

\* np.clip(v, lo, hi).
Clip(v, lo, hi) == IF v < lo THEN lo ELSE IF v > hi THEN hi ELSE v

MinSeq(s) == CHOOSE x \in {s[i] : i \in 1..Len(s)} : \A i \in 1..Len(s) : x <= s[i]

\* The first height of a group.
GroupFirst(hs) == hs[1]

\* Line 122: np.max over the heights of one group.
GroupMax(hs) == MaxSeq(hs)

\* rasterize_height: the lower bounds less eps, W and H cells of size res,
\* every point in cell (floor((y - miny) / res), floor((x - minx) / res))
\* clipped into the grid, a cell's value the maximum over its group, the
\* cells without a point 0.  Returns the grid and its origin (in eps).
rasterize_height(xyh, res) ==
    LET xs == [k \in 1..Len(xyh) |-> xyh[k][1] * EpsPerCm]
        ys == [k \in 1..Len(xyh) |-> xyh[k][2] * EpsPerCm]
        minx == MinSeq(xs) - 1
        miny == MinSeq(ys) - 1
        W == Max2(CeilDiv(MaxSeq(xs) - minx, res * EpsPerCm), 1)
        H == Max2(CeilDiv(MaxSeq(ys) - miny, res * EpsPerCm), 1)
        ix == [k \in 1..Len(xyh) |->
                  Clip((xs[k] - minx) \div (res * EpsPerCm), 0, W - 1)]
        iy == [k \in 1..Len(xyh) |->
                  Clip((ys[k] - miny) \div (res * EpsPerCm), 0, H - 1)]
        lin == [k \in 1..Len(xyh) |-> iy[k] * W + ix[k]]
        group(key) == SelectSeq([k \in 1..Len(xyh) |-> k],
                                LAMBDA k : lin[k] = key)
        img == [c \in (0..(H - 1)) \X (0..(W - 1)) |->
                   LET g == group(c[1] * W + c[2])
                   IN  IF g = <<>> THEN 0
                       ELSE GroupMax([j \in 1..Len(g) |-> xyh[g[j]][3]])]
    IN  [img |-> img, W |-> W, H |-> H, ox |-> minx, oy |-> miny]

\* Lines 247-249: the heights scaled to 0..maxval and cut to whole numbers.
Quantize(img) ==
    [c \in DOMAIN img |-> Clip((img[c] * Maxval) \div PipeMaxHeight, 0, Maxval)]

\* Lines 245-277: the raster and its metadata are written.
HRaster ==
    /\ UNCHANGED offProjector
    /\ hpc = "clipped"
    /\ hxyh # <<>>
    /\ LET r == rasterize_height(hxyh, PipeRes)
       IN  raster' =
             [exists |-> TRUE, img |-> r.img, png |-> Quantize(r.img),
              meta |-> [width |-> r.W, height |-> r.H, resolution |-> PipeRes,
                        origin_xy |-> <<r.ox, r.oy>>,
                        plane |-> UpPlane(hplane),
                        max_height |-> PipeMaxHeight, cap_mode |-> cap_mode,
                        bits |-> 8]]
    /\ hpc' = "done"
    /\ UNCHANGED <<tile_pts, hplane, cap_mode, ng_file, hxyh>>

\* Either the tile comes from the split of the pipeline, or the non-ground
\* directory was filled by hand and may hold a file without points.
ProjectorInit ==
    /\ hplane \in ProjPlanes
    /\ cap_mode \in {"clamp", "drop"}
    /\ \/ /\ hpc = "split"
          /\ tile_pts \in SeqsUpTo(ProjPts, MaxHPts) \ {<<>>}
          /\ ng_file = NoFile
       \/ /\ hpc = "listed"
          /\ tile_pts = <<>>
          /\ ng_file \in {[exists |-> TRUE, pts |-> ps] :
                            ps \in SeqsUpTo(ProjPts, MaxHPts - 1)}
    /\ hxyh = <<>>
    /\ raster = NoRaster
    /\ TilerIdle /\ GroundIdle /\ MapperIdle /\ BoxIdle

ProjectorNext ==
    \/ HSplit
    \/ HNotListed
    \/ HEmptyCloud
    \/ HVertical
    \/ HHeights
    \/ HAllDropped
    \/ HRaster

\* =========================================================================
\* Specifications: one per script
\* =========================================================================
SpecTiler == TilerInit /\ [][TilerNext]_vars

SpecMerge == MergeInit /\ [][MergeNext]_vars

SpecGround == GroundInit /\ [][GroundNext]_vars

SpecMapper == MapperInit /\ [][MapperNext]_vars

SpecBox == BoxInit /\ [][BoxNext]_vars

SpecProjector == ProjectorInit /\ [][ProjectorNext]_vars

\* =========================================================================
\* Claims
\* =========================================================================

\* Every input point is in exactly one exported tile, and no tile holds a
\* point that is not in the input.
StrictPartition ==
    /\ \A p \in xy_full :
          Cardinality({cid \in DOMAIN tiles : p \in tiles[cid]}) = 1
    /\ \A cid \in DOMAIN tiles : tiles[cid] \subseteq xy_full

\* C1: for any cloud of N >= 1 points, any target T >= 1 and any sub-sampling
\* outcome, the Tiler run completes (it never ends in a raised error) and
\* the exported tiles are a strict partition of the input.
C1_TilerCompletesWithPartition ==
    /\ tpc # "failed"
    /\ tpc = "done" => StrictPartition

\* The count-weighted average (ci*Ci + cj*Cj) / (ci + cj) of two centres.
WeightedMean(Ci, ci, Cj, cj) ==
    NormC(<<Ci[1] * Cj[3] * ci + Cj[1] * Ci[3] * cj,
            Ci[2] * Cj[3] * ci + Cj[2] * Ci[3] * cj,
            Ci[3] * Cj[3] * (ci + cj)>>)

\* C7: whenever cluster i (count ci, centroid Ci) is merged into its nearest
\* cluster j (count cj, centroid Cj), the surviving cluster has count ci+cj
\* and centroid (ci*Ci + cj*Cj)/(ci+cj).
C7_MergeIsWeightedMean ==
    merged # <<>> =>
        /\ merged.count = merged.ci + merged.cj
        /\ merged.center = WeightedMean(merged.Ci, merged.ci, merged.Cj, merged.cj)

\* One step of the merge: the number of clusters never grows, an accepted
\* merge lowers it by exactly one, and nothing else changes it.
MergeStepShrinks ==
    tpc = "merging" =>
        /\ Len(centers') <= Len(centers)
        /\ Len(counts') = Len(centers')
        /\ nMerges' = nMerges + 1 => Len(centers') = Len(centers) - 1
        /\ nMerges' = nMerges => Len(centers') = Len(centers)

\* The while loop runs a bounded number of passes: every pass but the last
\* accepts a merge, and at most K - 1 merges are accepted.
MergePassesBounded ==
    /\ nPasses <= nMerges + 1
    /\ nMerges <= K - 1
    /\ Len(centers) = K - nMerges
    /\ (tpc = "merging" /\ nPasses > nMerges) => ~(changed /\ Len(centers) > 1)

\* C8: merge_centers_until_stable terminates on every input of K >= 1
\* clusters (its loop runs at most K passes, and stops after a pass that
\* merges nothing); the number of clusters never increases, each accepted
\* merge lowers it by exactly one, and the result has between 1 and K
\* clusters.
C8_MergeTerminates ==
    /\ [][MergeStepShrinks]_vars
    /\ [](tpc \in {"merging", "merged"} => MergePassesBounded)
    /\ [](tpc = "merged" => Len(centers) \in 1..K)

\* Witness of C8: the merge returned after accepting two merges.
C8_Witness == tpc = "merged" /\ nMerges >= 2 /\ Len(centers) = K - 2

\* The Plane step 2 would leave for tile cid if its turn read the Planes as
\* they were at the end of the fit phase.
SnapshotRepair(cid) == RepairOutcome(fitted, fitted[cid], cid)

\* C2: during the repair phase every tile's angles and repaired normal are
\* computed from the neighbours' Planes as they were at the end of the fit
\* phase, so a repair of an earlier tile is never visible to a later one: each
\* tile whose turn is over holds the Plane the end-of-fit snapshot gives it.
C2_RepairReadsSnapshot ==
    gpc \in {"repair", "split", "done"} =>
        \A cid \in DOMAIN planes :
            (gpc = "repair" => cid < gcur) => planes[cid] = SnapshotRepair(cid)

\* C3: no repair step starts before the fit step has finished for every
\* tile: whenever the program is at or past the repair loop, the fit result
\* of every tile of the neighbour graph (present or absent) is recorded.
C3_RepairAfterAllFits ==
    gpc \in {"repair", "split", "done"} => fitSeen = DOMAIN nb

\* A repair decision that read neighbour Planes, in a graph of three tiles.
C3_Witness ==
    /\ gpc = "repair"
    /\ NTiles = 3
    /\ suspects # <<>>
    /\ fitSeen = DOMAIN nb

SignedDist(q, cid) == Dot3(q, planes[cid].n) + planes[cid].D

\* C6: split_and_save puts every point of the tile in exactly one of ground
\* and non-ground; every ground point has signed distance n.p + D <=
\* split_dist (points below the plane included) and every non-ground point
\* has signed distance > split_dist.
C6_SplitIsBipartition ==
    \A cid \in DOMAIN splits :
        /\ splits[cid].ground (+) splits[cid].nonground = pcd[cid]
        /\ DOMAIN splits[cid].ground \cap DOMAIN splits[cid].nonground = {}
        /\ \A q \in DOMAIN splits[cid].ground :
               SignedDist(q, cid) <= split_dist * NScale
        /\ \A q \in DOMAIN splits[cid].nonground :
               SignedDist(q, cid) > split_dist * NScale

\* A split with points below the plane, a point exactly at split_dist and
\* points above it.
C6_Witness ==
    \E cid \in DOMAIN splits :
        /\ \E q \in DOMAIN splits[cid].ground : SignedDist(q, cid) < 0
        /\ \E q \in DOMAIN pcd[cid] : SignedDist(q, cid) = split_dist * NScale
        /\ splits[cid].nonground # <<>>

\* How many times point idx occurs in the tile's written outputs.
TimesWritten(idx) ==
    Cardinality({k \in DOMAIN clean : clean[k] = idx})
      + SumOver(DOMAIN inference,
                [d \in DOMAIN inference |->
                    Cardinality({k \in DOMAIN inference[d] :
                                    inference[d][k] = idx})])

\* C4: for any tile and any list of detections, once DetectionMapper is
\* through with the tile every point of it is in exactly one output: the
\* cloud of exactly one Detection or the residual cloud; none is in two,
\* none is lost.
C4_EveryPointInOneOutput ==
    mpc \in {"done", "crashed"} =>
        \A idx \in 1..Len(mpts) : TimesWritten(idx) = 1

\* The Detections whose reconstructed extents hold the point.
Containing(pt) ==
    {b \in {bbox_defs[k] : k \in 1..Len(bbox_defs)} : PointInBox3(pt, b.box)}

\* Square of twice the distance from pt to the box's XY centre at plane
\* height, that is the bottom of the box less the clearance.
TieBreakDist2(pt, box) ==
    LET ex == 2 * pt[1] - (box.x[1] + box.x[2])
        ey == 2 * pt[2] - (box.y[1] + box.y[2])
        ez == 2 * pt[3] - 2 * (box.z[1] - Clearance)
    IN  ex * ex + ey * ey + ez * ez

\* C5: a point inside the extents of several Detections is assigned to the
\* one whose tie-break centre is nearest; among exactly equidistant ones to
\* the lowest index in file order.  When the tile is written the point is in
\* that Detection's cloud.
C5_NearestThenLowestIndex ==
    \A idx \in DOMAIN chosenOf :
        LET pt == mpts[idx]
            cs == Containing(pt)
        IN  Cardinality(cs) >= 2 =>
              /\ \E b \in cs :
                   /\ b.i = chosenOf[idx]
                   /\ \A c \in cs :
                        /\ TieBreakDist2(pt, b.box) <= TieBreakDist2(pt, c.box)
                        /\ TieBreakDist2(pt, b.box) = TieBreakDist2(pt, c.box)
                             => b.i <= c.i
              /\ mpc = "done" =>
                   /\ chosenOf[idx] \in DOMAIN inference
                   /\ \E k \in DOMAIN inference[chosenOf[idx]] :
                        inference[chosenOf[idx]][k] = idx

\* A written tile with a point exactly equidistant from the two nearest
\* Detections holding it, and a point whose Detections differ in distance.
C5_Witness ==
    /\ mpc = "done"
    /\ \E idx \in DOMAIN chosenOf :
         \E b, c \in Containing(mpts[idx]) :
            /\ b.i # c.i
            /\ TieBreakDist2(mpts[idx], b.box) = TieBreakDist2(mpts[idx], c.box)
            /\ \A e \in Containing(mpts[idx]) :
                 TieBreakDist2(mpts[idx], b.box) <= TieBreakDist2(mpts[idx], e.box)
    /\ \E idx \in DOMAIN chosenOf :
         \E b, c \in Containing(mpts[idx]) :
            TieBreakDist2(mpts[idx], b.box) < TieBreakDist2(mpts[idx], c.box)

\* The containment test of box b of the list, run on point p.
InsideBox(p, b) ==
    LET cv == convert_bbox_coords(bboxes[b].center, bboxes[b].size)
    IN  points_in_box(p, cv.center, cv.size, bboxes[b].yaw)

\* C9 as stated: after BoxEditor has processed a box list, the containment
\* test of any box of the list finds no point of the edited output cloud
\* inside it, boxes with the infill flag and overlapping boxes included.
C9_NoOutputPointInsideAnyBox ==
    bpc = "done" =>
        \A b \in 1..Len(bboxes) : \A k \in 1..Len(output) :
            ~InsideBox(output[k], b)

\* C9 amended: after BoxEditor has processed a box list, no point of the
\* input cloud that is left in the edited output lies inside any box of the
\* list; whatever the containment test of a box still finds in the output
\* is a synthesized infill point.
C9_NoInputPointInsideAnyBox ==
    bpc = "done" =>
        \A b \in 1..Len(bboxes) : \A k \in 1..Len(output) :
            InsideBox(output[k], b) => k > nKept

\* An edited cloud from two boxes that share an input point, with an input
\* point left and a synthesized point that the containment test finds.
C9_Witness ==
    /\ bpc = "done"
    /\ nKept >= 1
    /\ \E k \in 1..Len(points) : \E b, c \in 1..Len(bboxes) :
          b # c /\ InsideBox(points[k], b) /\ InsideBox(points[k], c)
    /\ \E k \in (nKept + 1)..Len(output) : \E b \in 1..Len(bboxes) :
          InsideBox(output[k], b)

\* A synthesized point p in the local frame of box b.
LocalOf(p, b) ==
    LET cv == convert_bbox_coords(bboxes[b].center, bboxes[b].size)
    IN  RotZ(<<p[1] - cv.center[1], p[2] - cv.center[2], p[3] - cv.center[3]>>,
             -bboxes[b].yaw)

\* C10: for a box with the infill flag the number of synthesized points is
\* floor(sx * sy * density) of the converted box, and every synthesized
\* point, in the box's local frame, is within the horizontal half-extents and
\* within the bottom 5% of the vertical extent; a box without the flag
\* synthesizes no points.  The saved cloud holds exactly those points after
\* the kept ones.
C10_InfillCountAndBand ==
    /\ \A b \in 1..Len(fillOf) :
         LET sz == convert_bbox_coords(bboxes[b].center, bboxes[b].size).size
         IN  IF bboxes[b].fill_surface
             THEN /\ 10000 * Len(fillOf[b]) <= sz[1] * sz[2] * Density
                  /\ 10000 * (Len(fillOf[b]) + 1) > sz[1] * sz[2] * Density
                  /\ \A k \in 1..Len(fillOf[b]) :
                       LET loc == LocalOf(fillOf[b][k], b)
                       IN  /\ 2 * Abs(loc[1]) <= sz[1]
                           /\ 2 * Abs(loc[2]) <= sz[2]
                           /\ 2 * loc[3] >= -sz[3]
                           /\ 100 * 2 * loc[3] <= -100 * sz[3] + 2 * 5 * sz[3]
             ELSE fillOf[b] = <<>>
    /\ bpc = "done" =>
         SubSeq(output, nKept + 1, Len(output)) = Vstack(fillOf)

\* A saved cloud for a turned box with the flag, whose area times density
\* is no whole number, and a box without the flag.
C10_Witness ==
    /\ bpc = "done"
    /\ \E b \in 1..Len(fillOf) :
          /\ bboxes[b].fill_surface
          /\ bboxes[b].yaw # 0
          /\ Len(fillOf[b]) = 3
          /\ \E k, j \in 1..3 : fillOf[b][k] # fillOf[b][j]
    /\ \E b \in 1..Len(fillOf) : ~bboxes[b].fill_surface

\* The input positions inside at least one box of the list: a property of
\* the set of boxes, whatever their order in the file.
InSomeBox == {k \in 1..Len(points) : \E b \in 1..Len(bboxes) : InsideBox(points[k], b)}

\* The input points outside every box, in input order.
OutsideAll ==
    LET ks == SelectSeq([k \in 1..Len(points) |-> k], LAMBDA k : k \notin InSomeBox)
    IN  [j \in 1..Len(ks) |-> points[ks[j]]]

\* C11: BoxEditor's output is the input points inside none of the boxes
\* followed by all infill points: an input point survives iff it is outside
\* every box, a point inside several boxes is removed once, the survivors do
\* not depend on the order of the box list, and the output size is the input
\* size less the size of the union of the removals plus the infill counts.
C11_OutputIsSurvivorsPlusInfill ==
    bpc = "done" =>
        /\ SubSeq(output, 1, nKept) = OutsideAll
        /\ SubSeq(output, nKept + 1, Len(output)) = Vstack(new_points)
        /\ Len(output) = Len(points) - Cardinality(InSomeBox)
                           + SumSeq([b \in 1..Len(fillOf) |-> Len(fillOf[b])])

\* An edited cloud from two different boxes that share an input point, with
\* another input point removed by one box only, a survivor and infill.
C11_Witness ==
    /\ bpc = "done"
    /\ Len(bboxes) = 2 /\ bboxes[1] # bboxes[2]
    /\ \E k \in 1..Len(points) : InsideBox(points[k], 1) /\ InsideBox(points[k], 2)
    /\ Len(points) > Cardinality(InSomeBox)
    /\ nKept < Len(output)

\* The tile's detection file yields no Detection.
NoDetections == \A k \in 1..Len(lines) : LineIsMalformed(lines[k])

\* C15: for a tile whose Detection list is empty, DetectionMapper writes a
\* residual cloud equal to the tile's full non-ground cloud and no Object
\* cloud; the run is not ended by it.
C15_EmptyListCopiesCloud ==
    NoDetections =>
        /\ mpc # "crashed"
        /\ inference = <<>>
        /\ inf_summaries = <<>>
        /\ mpc = "done" =>
             /\ cleanWritten
             /\ [k \in 1..Len(clean) |-> mpts[clean[k]]] = mpts

\* A tile of two points written without any Detection.
C15_Witness ==
    /\ mpc = "done"
    /\ NoDetections
    /\ Len(mpts) = 2
    /\ Len(clean) = 2

\* C16: every Plane recorded by GroundEstimator, as produced by the fit and
\* as replaced by a repair, has a normal with vertical component >= 0, in
\* every state of the run and in the final report.
C16_NormalsPointUp ==
    /\ \A cid \in DOMAIN planes : planes[cid].n[3] >= 0
    /\ \A cid \in DOMAIN report : report[cid].n[3] >= 0

\* A report holding a Plane whose fit came out pointing down and was
\* flipped, and a Plane replaced by a repair.
C16_Witness ==
    /\ \E cid \in DOMAIN report :
          report[cid].n = <<0, 0, NScale>> /\ report[cid].D = -2 * NScale
    /\ \E cid \in DOMAIN report : "status" \in DOMAIN report[cid]

\* The repair condition of tile cid on the Planes as fitted: the tile is
\* good, has a neighbour with a Plane, and max_ang > 10 degrees or med_ang > 5
\* degrees with inlier_ratio < 0.3.
RepairDue(cid) ==
    IF cid \notin DOMAIN fitted THEN FALSE
    ELSE IF ~fitted[cid].good THEN FALSE
    ELSE LET ids == SelectSeq(nb[cid], LAMBDA nid : nid \in DOMAIN fitted)
             angs == [k \in 1..Len(ids) |->
                         angle_deg(fitted[cid].n, fitted[ids[k]].n)]
         IN  IF ids = <<>> THEN FALSE
             ELSE \/ MaxSeq(angs) > AngleHard
                  \/ /\ Median2(angs) > 2 * AngleSoft
                     /\ 10 * fitted[cid].inliers < 3 * fitted[cid].cand

\* C17: a tile's Plane is repaired if and only if the tile is good, has at
\* least one neighbour to compare with, and max_ang > 10 degrees or med_ang >
\* 5 degrees and inlier_ratio < 0.3; in every other case the Plane keeps its
\* fitted normal and offset.
C17_RepairedIffDue ==
    gpc \in {"split", "done"} =>
        \A cid \in DOMAIN planes :
            /\ ("status" \in DOMAIN planes[cid]) <=> RepairDue(cid)
            /\ ~RepairDue(cid) =>
                 planes[cid].n = fitted[cid].n /\ planes[cid].D = fitted[cid].D

\* The neighbours of tile cid whose fitted Plane is good.
GoodNeighbours(cid) ==
    {nid \in {nb[cid][k] : k \in 1..Len(nb[cid])} :
        IF nid \in DOMAIN fitted THEN fitted[nid].good ELSE FALSE}

\* C18: the neighbours used for a tile's consistency check and repaired
\* normal are only neighbours whose Plane is good: a neighbour without a fit
\* or with a Plane that is not good contributes nothing, and a good tile with
\* no good neighbour is never repaired.
C18_OnlyGoodNeighboursCount ==
    \A k \in 1..Len(suspects) : GoodNeighbours(suspects[k]) # {}

\* C19: every Plane record in the final Plane report carries a status field
\* whose value is estimated (never repaired) or repaired.
C19_ReportHasStatus ==
    \A cid \in DOMAIN report :
        IF "status" \in DOMAIN report[cid]
        THEN report[cid].status \in {"estimated", "repaired"}
        ELSE FALSE

\* C20: a tile produces ground/non-ground split output, and with it a height
\* raster and DetectionMapper output, only if it has a good Plane, a Plane
\* with nz >= 0.9; a tile without a fit or with a Plane that is not good
\* produces no output downstream.
C20_SplitOnlyWithGoodPlane ==
    \A cid \in DOMAIN splits :
        /\ cid \in DOMAIN planes
        /\ planes[cid].good
        /\ planes[cid].n[3] >= MinNz

\* Cell size and the kept points' coordinates in the raster's units.
CellSize == raster.meta.resolution * EpsPerCm

\* Point k of the kept points lies in cell c = <<row, column>> of the grid
\* laid out from the raster's origin.
LiesIn(k, c) ==
    /\ raster.meta.origin_xy[1] + c[2] * CellSize <= hxyh[k][1] * EpsPerCm
    /\ hxyh[k][1] * EpsPerCm < raster.meta.origin_xy[1] + (c[2] + 1) * CellSize
    /\ raster.meta.origin_xy[2] + c[1] * CellSize <= hxyh[k][2] * EpsPerCm
    /\ hxyh[k][2] * EpsPerCm < raster.meta.origin_xy[2] + (c[1] + 1) * CellSize

\* The heights of the kept points lying in cell c.
HeightsIn(c) == {hxyh[k][3] : k \in {j \in 1..Len(hxyh) : LiesIn(j, c)}}

\* A raster was computed from points.
Rastered == hpc = "done" /\ raster.exists /\ hxyh # <<>>

\* C12: in the height raster every point falls into exactly one cell inside
\* the grid, a cell that received points holds the maximum height among
\* them (whatever their order), and a cell that received none holds 0.
C12_CellsHoldMaxHeight ==
    Rastered =>
        /\ DOMAIN raster.img
             = (0..(raster.meta.height - 1)) \X (0..(raster.meta.width - 1))
        /\ \A k \in 1..Len(hxyh) :
             Cardinality({c \in DOMAIN raster.img : LiesIn(k, c)}) = 1
        /\ \A c \in DOMAIN raster.img :
             IF HeightsIn(c) = {} THEN raster.img[c] = 0
             ELSE /\ raster.img[c] \in HeightsIn(c)
                  /\ \A h \in HeightsIn(c) : h <= raster.img[c]

\* A raster with a cell that received a lower point before a higher one, and
\* a cell that received none.
C12_Witness ==
    /\ Rastered
    /\ \E c \in DOMAIN raster.img : HeightsIn(c) = {}
    /\ \E c \in DOMAIN raster.img : \E j, k \in 1..Len(hxyh) :
          j < k /\ LiesIn(j, c) /\ LiesIn(k, c) /\ hxyh[j][3] < hxyh[k][3]

\* The points of the non-ground file with their height above the plane.
AllHeights == HeightsOf(ng_file.pts, UpPlane(hplane))

\* The points that contribute under the clip mode.
Contributing ==
    SelectSeq([k \in 1..Len(AllHeights) |-> k],
              LAMBDA k : cap_mode = "drop" => AllHeights[k][3] <= PipeMaxHeight)

\* C13: with clip mode drop a point higher than max_height above the plane
\* contributes neither to a cell value nor to the XY bounds that fix the
\* raster's origin and size; with clip mode clamp it is kept, contributes
\* to the bounds, and its height counts as exactly max_height.
C13_DropAndClamp ==
    hpc \in {"clipped", "done"} =>
        /\ Len(hxyh) = Len(Contributing)
        /\ \A j \in 1..Len(hxyh) :
             LET pt == AllHeights[Contributing[j]]
             IN  /\ hxyh[j][1] = pt[1] /\ hxyh[j][2] = pt[2]
                 /\ hxyh[j][3] = IF pt[3] > PipeMaxHeight THEN PipeMaxHeight
                                 ELSE pt[3]
        /\ Rastered =>
             /\ \A j \in 1..Len(Contributing) :
                  /\ AllHeights[Contributing[j]][1] * EpsPerCm
                       > raster.meta.origin_xy[1]
                  /\ AllHeights[Contributing[j]][2] * EpsPerCm
                       > raster.meta.origin_xy[2]
             /\ \E j \in 1..Len(Contributing) :
                  AllHeights[Contributing[j]][1] * EpsPerCm
                    = raster.meta.origin_xy[1] + 1
             /\ \E j \in 1..Len(Contributing) :
                  AllHeights[Contributing[j]][2] * EpsPerCm
                    = raster.meta.origin_xy[2] + 1
             /\ \E j \in 1..Len(Contributing) :
                  \/ raster.meta.width = 1
                  \/ AllHeights[Contributing[j]][1] * EpsPerCm
                       > raster.meta.origin_xy[1]
                           + (raster.meta.width - 1) * CellSize
             /\ \E j \in 1..Len(Contributing) :
                  \/ raster.meta.height = 1
                  \/ AllHeights[Contributing[j]][2] * EpsPerCm
                       > raster.meta.origin_xy[2]
                           + (raster.meta.height - 1) * CellSize

\* A raster in mode drop that leaves out a point higher than max_height
\* lying beyond the grid the other points span.
C13_Witness ==
    /\ Rastered
    /\ cap_mode = "drop"
    /\ \E k \in 1..Len(AllHeights) :
          /\ AllHeights[k][3] > PipeMaxHeight
          /\ AllHeights[k][1] * EpsPerCm
               > raster.meta.origin_xy[1] + raster.meta.width * CellSize

\* The non-ground points of the tile: what the split leaves above the plane,
\* or the file put in the non-ground directory.
NongroundOfTile ==
    IF tile_pts # <<>> THEN NongroundPts(tile_pts, hplane, PipeSplitDist)
    ELSE ng_file.pts

\* C14: for a tile with a usable Plane whose non-ground point set is empty,
\* or whose non-ground points are all removed by the drop clip, the
\* HeightProjector still emits a 1x1 raster of value 0 with metadata (width
\* 1, height 1, resolution, origin, plane, clip and bit settings), and the
\* run does not fail.
C14_DegenerateTileGetsRaster ==
    /\ hpc = "done"
    /\ ~PlaneIsVertical(UpPlane(hplane))
    /\ \/ NongroundOfTile = <<>>
       \/ /\ cap_mode = "drop"
          /\ \A k \in 1..Len(NongroundOfTile) :
               HeightsOf(NongroundOfTile, UpPlane(hplane))[k][3] > PipeMaxHeight
    => /\ raster.exists
       /\ raster.img = (<<0, 0>> :> 0)
       /\ raster.meta.width = 1 /\ raster.meta.height = 1
       /\ raster.meta.resolution = PipeRes
       /\ raster.meta.plane = UpPlane(hplane)
       /\ raster.meta.cap_mode = cap_mode

\* The centre with the id i comes no later than the one with the id j in the
\* order "larger Y first, then X not larger".
SortedPair(cs, i, j) ==
    \/ cs[i][2] * cs[j][3] > cs[j][2] * cs[i][3]
    \/ /\ cs[i][2] * cs[j][3] = cs[j][2] * cs[i][3]
       /\ cs[i][1] * cs[j][3] <= cs[j][1] * cs[i][3]

\* After the renumbering: ids are 1..M (the code's 0..M-1) in every table,
\* the centres are sorted, every count is the number of points carrying the
\* id, and every point's id denotes a centre nearest to it.
RenumberedState ==
    tpc \in {"renumbered", "exported", "done"} =>
        /\ Len(counts) = Len(centers)
        /\ \A p \in xy_full : labels_full[p] \in 1..Len(centers)
        /\ \A i, j \in 1..Len(centers) : i < j => SortedPair(centers, i, j)
        /\ counts = Bincount(labels_full, Len(centers))
        /\ \A p \in xy_full : labels_full[p] \in NearestCenters(centers, p)

\* The bijections of 1..n.
Bijections(n) ==
    {f \in [1..n -> 1..n] : \A a, b \in 1..n : f[a] = f[b] => a = b}

\* The renumbering step applies one permutation of the ids to the centres,
\* the counts and the points' labels.
RenumberStep ==
    tpc = "assigned" /\ tpc' = "renumbered" =>
        \E f \in Bijections(Len(centers)) :
            /\ Len(centers') = Len(centers)
            /\ \A old \in 1..Len(centers) :
                 /\ centers'[f[old]] = centers[old]
                 /\ counts'[f[old]] = counts[old]
            /\ \A p \in xy_full : labels_full'[p] = f[labels_full[p]]

\* C21: after the renumbering the tile ids are dense and sorted by centroid
\* (for ids i < j, tile i's centroid has the larger Y, or equal Y and X not
\* larger), and the renumbering is one permutation that moves each point,
\* each per-tile count and each centroid together, so that a point's new id
\* still denotes the centroid it was nearest to.
C21_RenumberingSortsAndPermutes == []RenumberedState /\ [][RenumberStep]_vars

\* A renumbered run with at least two tiles, where the centre that now has
\* the id 1 has the strictly larger Y and the larger X than the centre with
\* the id 2 (the order by Y decided against the order by X), and the two
\* tiles own different numbers of points.
C21_Witness ==
    /\ tpc = "renumbered"
    /\ Len(centers) >= 2
    /\ centers[1][2] * centers[2][3] > centers[2][2] * centers[1][3]
    /\ centers[1][1] * centers[2][3] > centers[2][1] * centers[1][3]
    /\ counts[1] # counts[2]
    /\ counts[1] > 0 /\ counts[2] > 0

\* L*L times the squared distance of the centres with the ids a and b.
CentroidDist2(a, b) == Dist2(centers[a], centers[b], LcmDen(centers))

\* C22: for M surviving tiles every tile's neighbour list has exactly
\* min(6, M-1) entries, every entry is the id of another tile, the entries
\* are the nearest other centroids in ascending order of distance; also
\* when two centroids coincide, and when M = 1 (empty list, the run
\* completes).
C22_NeighbourLists ==
    /\ ~(tpc = "failed" /\ tiles # <<>>)
    /\ tpc = "done" =>
         /\ Len(neighbors) = Len(centers)
         /\ \A cid \in 1..Len(centers) :
              LET list == neighbors[cid]
              IN  /\ Len(list) = Min2(6, Len(centers) - 1)
                  /\ \A k \in 1..Len(list) : list[k] \in 1..Len(centers) \ {cid}
                  /\ \A j, k \in 1..Len(list) : j < k =>
                       /\ list[j] # list[k]
                       /\ CentroidDist2(cid, list[j]) <= CentroidDist2(cid, list[k])
                  /\ \A o \in 1..Len(centers) \ {cid} :
                       \/ \E k \in 1..Len(list) : list[k] = o
                       \/ \A k \in 1..Len(list) :
                            CentroidDist2(cid, list[k]) <= CentroidDist2(cid, o)

\* A completed run in which two centroids coincide.
C22_CoincidentCentroids ==
    /\ tpc = "done"
    /\ \E a, b \in 1..Len(centers) : a # b /\ CentroidDist2(a, b) = 0

\* The detection file mixes malformed lines with valid ones.
MixedLines ==
    /\ \E k \in 1..Len(lines) : LineIsMalformed(lines[k])
    /\ \E k \in 1..Len(lines) : ~LineIsMalformed(lines[k])

\* C23: when a tile's detection file holds malformed lines (fewer than 6
\* fields) among valid ones, the malformed lines are skipped and the tile
\* is processed to completion: the points assigned to a valid Detection
\* are stored and reported under that Detection's own file-order index,
\* and the processing does not abort.
C23_MalformedLinesAreSkipped ==
    MixedLines =>
        /\ mpc # "crashed"
        /\ \A k \in 1..Len(bbox_defs) : ~LineIsMalformed(lines[bbox_defs[k].i + 1])
        /\ mpc = "done" =>
             \A idx \in DOMAIN chosenOf :
                 /\ chosenOf[idx] \in DOMAIN inference
                 /\ \E k \in 1..Len(inference[chosenOf[idx]]) :
                      inference[chosenOf[idx]][k] = idx
                 /\ \E k \in 1..Len(inf_summaries) :
                      inf_summaries[k].id = chosenOf[idx]

\* C24: in the final Plane report every Plane's quality fields agree with
\* its recorded normal: nz is the vertical component of n, and good is true
\* exactly when that component is >= min_nz (0.9); for repaired Planes as
\* well as for Planes left as fitted.
C24_QualityFieldsAgreeWithNormal ==
    \A cid \in DOMAIN report :
        /\ report[cid].nz = report[cid].n[3]
        /\ report[cid].good = (report[cid].n[3] >= MinNz)

=============================================================================
